---- MODULE Spec2Model ----
(***************************************************************************)
(* A model of ryt: the identity-switching HTTP client (platform/client.rs),*)
(* the URL extractor (utils/url.rs), the orchestrator (core/downloader.rs),*)
(* the player-response fetcher (platform/innertube.rs) and the streaming   *)
(* media fetcher (download/downloader.rs).                                 *)
(***************************************************************************)
EXTENDS Integers, Sequences, FiniteSets, TLC

(***************************************************************************)
(* Bounds of the model.                                                    *)
(***************************************************************************)
\* cap on client_switch_count (a u32 in the code) in the client specification
MaxSwitches == 3
\* largest number of body chunks the media server streams
MaxChunks == 2
\* largest RetryConfig.max_retries a RetryExecutor is built with
MaxRetryConfig == 3
\* largest content length (bytes) of the media behind a ranged download
MaxContent == 3
\* largest DownloaderConfig.chunk_size (bytes) of a ranged download
MaxChunkSize == 2

(***************************************************************************)
(* platform/client.rs : ClientType                                         *)
(***************************************************************************)
ClientTypeAll ==
  <<"Chrome", "Firefox", "Safari", "Android", "Ios",
    "Edge", "Opera", "SamsungBrowser", "AndroidTV", "SmartTV">>

ClientTypes == {ClientTypeAll[i] : i \in 1..Len(ClientTypeAll)}

NumClients == Len(ClientTypeAll)

\* available_clients[i], with the code's 0-based index
ClientAt(i) == ClientTypeAll[i + 1]

\* available_clients.iter().position(|&c| c == t)
PositionOf(t) == (CHOOSE i \in 1..Len(ClientTypeAll) : ClientTypeAll[i] = t) - 1

is_mobile(t) == t \in {"Android", "Ios", "SamsungBrowser"}

is_web(t) == t \in {"Chrome", "Firefox", "Safari", "Edge", "Opera"}

is_tv(t) == t \in {"AndroidTV", "SmartTV"}

ClientSwitchingStrategy == {"RoundRobin", "Random", "OnError", "OnGeoBlock", "Smart"}

\* RytError variants that reach switch_client_by_strategy, and "None" for Option::None
ErrorHints ==
  {"None", "RateLimited", "BotguardError", "AgeRestricted",
   "VideoUnavailable", "GeoBlocked", "TimeoutError"}

(***************************************************************************)
(* platform/client.rs : VideoClient, as a record of the fields that the    *)
(* switching code reads and writes.                                        *)
(***************************************************************************)
with_config(client_type, enable, strategy) ==
  [client_type             |-> client_type,
   enable_client_switching |-> enable,
   switching_strategy      |-> strategy,
   current_client_index    |-> 0,
   client_switch_count     |-> 0]

\* HttpClientConfig::default()
DefaultClient == with_config("Chrome", TRUE, "Smart")

switch_client(c) ==
  IF ~c.enable_client_switching
  THEN c
  ELSE [c EXCEPT !.current_client_index = (c.current_client_index + 1) % NumClients,
                 !.client_switch_count  = c.client_switch_count + 1,
                 !.client_type = ClientAt((c.current_client_index + 1) % NumClients)]

switch_to_client(c, t) ==
  [c EXCEPT !.client_type          = t,
            !.client_switch_count  = c.client_switch_count + 1,
            !.current_client_index = PositionOf(t)]

\* the arm shared by several strategies: web -> Android, otherwise advance
MobileOrNext(c) ==
  IF is_web(c.client_type) THEN switch_to_client(c, "Android") ELSE switch_client(c)

\* a slip that swaps the Smart arms of rate-limited and age-restricted
switch_client_by_strategy_swapped(c, err, r) ==
  CASE c.switching_strategy = "RoundRobin" -> switch_client(c)
    [] c.switching_strategy = "Random"     -> switch_to_client(c, ClientAt(r))
    [] c.switching_strategy = "OnError"    ->
         IF err \in {"RateLimited", "BotguardError"} THEN switch_client(c)
         ELSE IF err = "AgeRestricted" THEN MobileOrNext(c)
         ELSE c
    [] c.switching_strategy = "OnGeoBlock" ->
         IF err = "VideoUnavailable" THEN MobileOrNext(c) ELSE c
    [] OTHER ->
         IF err \in {"RateLimited", "BotguardError"} THEN MobileOrNext(c)
         ELSE switch_client(c)

\* r is the index drawn by rand::thread_rng().gen_range(0..len) (Random strategy)
switch_client_by_strategy(c, err, r) ==
  CASE c.switching_strategy = "RoundRobin" -> switch_client(c)
    [] c.switching_strategy = "Random"     -> switch_to_client(c, ClientAt(r))
    [] c.switching_strategy = "OnError"    ->
         IF err \in {"RateLimited", "BotguardError"} THEN MobileOrNext(c)
         ELSE IF err = "AgeRestricted" THEN MobileOrNext(c)
         ELSE c
    [] c.switching_strategy = "OnGeoBlock" ->
         IF err = "VideoUnavailable" THEN MobileOrNext(c) ELSE c
    [] OTHER -> \* Smart
         IF err \in {"RateLimited", "BotguardError"} THEN switch_client(c)
         ELSE IF err = "VideoUnavailable" THEN switch_client(c)
         ELSE IF err = "AgeRestricted" THEN MobileOrNext(c)
         ELSE switch_client(c)

reset_client_switching(c) ==
  [c EXCEPT !.current_client_index = 0,
            !.client_switch_count  = 0,
            !.client_type          = "Chrome"]

(***************************************************************************)
(* utils/url.rs : extract_video_id.  A URL is the result of Url::parse:    *)
(* whether it parses, its host, its path as the list of segments after the *)
(* leading '/', and the value of the first query pair named v.             *)
(***************************************************************************)
NoV == "<none>"

Hosts == {"youtu.be", "youtube.com", "www.youtube.com", "m.youtube.com", "example.com"}

SupportedHosts == {"youtu.be", "youtube.com", "www.youtube.com"}

Paths == { <<>>, <<"dQw4w9WgXcQ">>, <<"watch">>, <<"shorts", "">>,
           <<"shorts", "brZCOVlyPPo">>, <<"channel", "UCxxx">> }

Urls == [parses : BOOLEAN, host : Hosts, path : Paths, v : {NoV, "dQw4w9WgXcQ"}]

OkId(id) == [ok |-> TRUE, err |-> "", id |-> id]

ErrId(e) == [ok |-> FALSE, err |-> e, id |-> <<>>]

\* the URL is rejected whatever its host is
extract_video_id_open(u) ==
  IF ~u.parses THEN ErrId("UrlError")
  ELSE IF u.path = <<>> THEN ErrId("InvalidUrl")
  ELSE IF u.path[1] = "watch"
       THEN IF u.v = NoV THEN ErrId("InvalidUrl") ELSE OkId(<<u.v>>)
  ELSE IF u.path[1] = "shorts"
       THEN IF Tail(u.path) = <<"">> THEN ErrId("InvalidUrl") ELSE OkId(Tail(u.path))
  ELSE OkId(u.path)

extract_video_id(u) ==
  IF ~u.parses THEN ErrId("UrlError")
  ELSE IF u.host = "youtu.be"
       THEN IF u.path = <<>> THEN ErrId("InvalidUrl") ELSE OkId(u.path)
  ELSE IF u.host \in {"youtube.com", "www.youtube.com"}
       THEN IF u.path # <<>> /\ u.path[1] = "watch"
            THEN IF u.v = NoV THEN ErrId("InvalidUrl") ELSE OkId(<<u.v>>)
            ELSE IF Len(u.path) >= 2 /\ u.path[1] = "shorts"
                 THEN IF Tail(u.path) = <<"">> THEN ErrId("InvalidUrl")
                      ELSE OkId(Tail(u.path))
                 ELSE ErrId("InvalidUrl")
  ELSE ErrId("InvalidUrl")

(***************************************************************************)
(* State.                                                                  *)
(***************************************************************************)
VARIABLES
  vc,            \* InnerTubeClient.http_client : the VideoClient that is rotated
  last,          \* the last switching call made on vc: operation, hint, state before
  mode,          \* entry point called on the Downloader: "resolve" or "download"
  url,           \* its video_url argument
  pc,            \* position of the orchestrator
  result,        \* value returned by the entry point ("none" while running)
  attempt,       \* resolve_url: loop variable
  last_error,    \* resolve_url: last_error
  who,           \* which InnerTubeClient is fetching: "main" or the "ios" probe
  api_key,       \* api_key.is_some() of each InnerTubeClient
  srcIdx,        \* ensure_api_key: index into sources
  ewrAttempt,    \* execute_with_retry: loop variable
  fetchRes,      \* value returned by get_player_response
  reresolve,     \* download: resolve_url is running for the second time
  dlAttempt,     \* download: loop variable
  mvc,           \* ChunkedDownloader.video_client
  mIdx,          \* download_without_chunking: index into available_clients
  mLast,         \* download_without_chunking: last_error
  mediaRes,      \* value returned by download_without_chunking / ChunkedDownloader::download
  tmp,           \* contents of output_path.with_extension("tmp"), or Absent
  final,         \* contents of output_path, or Absent
  mediaLen,      \* number of chunks in the body of the successful media response
  received,      \* process_successful_response: chunks taken from the body stream
  eof,           \* the body stream returned None
  flushed,       \* file.flush() succeeded after the last write
  synced,        \* file.sync_all() succeeded after the last write
  hist,          \* observations of the run (requests sent, calls made, sleeps)
  retry,         \* download/retry.rs: a RetryExecutor and its running execute call
  resume,        \* download/downloader.rs: a running download_with_resume call
  limiter,       \* download/downloader.rs: a RateLimiter and the stream it paces
  cipher,        \* platform/cipher.rs: a Cipher, its caches and its running call
  xform,         \* platform/cipher.rs: the character list a transform works on
  norm,          \* core/downloader.rs: a URL under normalisation
  sel,           \* platform/formats.rs: a format list and the selection made from it
  mcache,        \* utils/cache.rs: a MemoryCache, the clock and the last call on it
  jobs,          \* download/downloader.rs: two downloads sharing one directory
  idcall         \* utils/url.rs: a call of extract_video_id and what it returned

clientVars == <<vc, last>>

resolveVars == <<attempt, last_error, who, api_key, srcIdx, ewrAttempt, fetchRes>>

mediaVars ==
  <<mvc, mIdx, mLast, mediaRes, tmp, final, mediaLen, received, eof, flushed, synced>>

\* the components that the orchestrator does not drive
pureVars == <<cipher, xform, norm, sel, mcache, jobs, idcall>>

otherVars == <<retry, resume, limiter, cipher, xform, norm, sel, mcache, jobs, idcall>>

vars == <<vc, last, mode, url, pc, result, attempt, last_error, who, api_key, srcIdx,
          ewrAttempt, fetchRes, reresolve, dlAttempt, mvc, mIdx, mLast, mediaRes,
          tmp, final, mediaLen, received, eof, flushed, synced, hist,
          retry, resume, limiter, cipher, xform, norm, sel, mcache, jobs, idcall>>

\* a path with no file, and a file with its contents (a sequence of chunks)
Absent == [exists |-> FALSE, data |-> <<>>]

File(d) == [exists |-> TRUE, data |-> d]

\* what an earlier run may have left at the temp path
StaleFile == File(<<0>>)

NoCall == [op |-> "none", hint |-> "None", before |-> "Chrome", beforeIdx |-> 0]

Call(op, hint) ==
  [op |-> op, hint |-> hint, before |-> vc.client_type,
   beforeIdx |-> vc.current_client_index]

HistInit ==
  [httpSent      |-> FALSE,  \* some HTTP request has been sent
   reqCtx        |-> "none", \* clientName in the context of the last player request
   reqFor        |-> "none", \* client type of the VideoClient when it was built
   reqAfterRot   |-> FALSE,  \* the orchestrator had rotated the identity before it
   fsTouched     |-> FALSE,  \* some file has been created, written, renamed or removed
   loopFetches   |-> 0,      \* get_player_response calls made by the loop of this resolve_url
   rotSinceFetch |-> 0,      \* switch_client_for_error calls since the last loop fetch returned
   rotHint       |-> "None", \* hint of the last such call
   sleptMs       |-> 0,      \* time slept by resolve_url since the last loop fetch returned
   mediaFetches  |-> 0,      \* ChunkedDownloader::download calls made by this download
   firstMediaRes |-> "none", \* what the first of them returned
   rotRL         |-> 0,      \* rotations with hint RateLimited made by download
   regenerated   |-> FALSE,  \* resolve_url returned Ok after that rotation
   mediaReqs     |-> 0,      \* media GETs sent by the current fetch call
   saw403        |-> FALSE,  \* a media GET of the current fetch call was answered 403
   reqsAfter403  |-> 0,      \* media GETs sent by the current fetch call after a 403
   lastCode      |-> "none", \* answer to the last media GET of the current fetch call
   sawBad        |-> FALSE,  \* one of them was answered with a status other than 2xx and 403
   resentAfterBad |-> FALSE, \* a media GET was sent after such an answer
   ewrSends      |-> 0,      \* requests sent by the current execute_with_retry call
   ewrOutcome    |-> "none", \* outcome of the last of them
   ewrSlept      |-> 0,      \* backoff (ms) execute_with_retry slept after it
   pageOutcome   |-> "none", \* what the last page fetched by ensure_api_key gave
   prStatus      |-> "none", \* playabilityStatus.status of the player response just parsed
   prReason      |-> "none"] \* and its reason

\* the part of the state the orchestrator owns, before any entry point runs
IdleOrchestrator ==
  /\ pc = "start" /\ result = "none"
  /\ attempt = 0 /\ last_error = "none" /\ who = "main"
  /\ api_key = [w \in {"main", "ios"} |-> FALSE]
  /\ srcIdx = 0 /\ ewrAttempt = 0 /\ fetchRes = "none"
  /\ reresolve = FALSE /\ dlAttempt = 0
  /\ mvc = DefaultClient
  /\ mIdx = 0 /\ mLast = "none" /\ mediaRes = "none"
  /\ final = Absent
  /\ mediaLen = 0 /\ received = 0 /\ eof = FALSE /\ flushed = FALSE /\ synced = FALSE
  /\ hist = HistInit

\* no execute call, no download_with_resume call and no paced stream has begun
IdleRetry ==
  [pc |-> "idle", max_retries |-> 0, attempt |-> 0, last_error |-> "none",
   initial_delay |-> 0, max_delay |-> 0, backoff_multiplier |-> 0,
   delay |-> 0, base |-> 0, slept |-> 0, calls |-> 0, result |-> "none"]

IdleResume ==
  [pc |-> "idle", content |-> 0, chunk_size |-> 1, existing_size |-> 0, total_size |-> 0,
   downloaded |-> 0, start |-> 0, end |-> 0, probeIdx |-> 0, attempt |-> 0,
   last_error |-> "none", result |-> "none", codes |-> {}, lastCode |-> "none",
   resentAfterBad |-> FALSE, slept |-> 0]

IdleLimiter == [pc |-> "idle"]

IdleCipher == [pc |-> "idle"]

IdleXform == [pc |-> "idle"]

IdleNorm == [pc |-> "idle"]

IdleSel == [pc |-> "idle"]

IdleCache == [pc |-> "idle"]

IdleJobs == [pc |-> "idle"]

IdleIdCall == [pc |-> "idle"]

IdlePure ==
  /\ cipher = IdleCipher /\ xform = IdleXform /\ norm = IdleNorm /\ sel = IdleSel
  /\ mcache = IdleCache /\ jobs = IdleJobs /\ idcall = IdleIdCall

IdleOthers ==
  retry = IdleRetry /\ resume = IdleResume /\ limiter = IdleLimiter /\ IdlePure

(***************************************************************************)
(* The VideoClient alone: constructed with any configuration, then driven  *)
(* by any sequence of its switching operations.                            *)
(***************************************************************************)
InitClient ==
  /\ vc \in {with_config(t, e, s) : t \in ClientTypes, e \in BOOLEAN,
                                    s \in ClientSwitchingStrategy}
  /\ last = NoCall
  /\ mode = "client" /\ url = CHOOSE u \in Urls : TRUE
  /\ tmp = Absent
  /\ IdleOrchestrator
  /\ IdleOthers

orchestratorVars ==
  <<mode, url, pc, result, attempt, last_error, who, api_key, srcIdx, ewrAttempt,
    fetchRes, reresolve, dlAttempt, mvc, mIdx, mLast, mediaRes, tmp, final,
    mediaLen, received, eof, flushed, synced, hist>>

CanSwitch == vc.client_switch_count < MaxSwitches

VC_switch_client ==
  /\ CanSwitch
  /\ vc' = switch_client(vc)
  /\ last' = Call("switch_client", "None")
  /\ UNCHANGED orchestratorVars
  /\ UNCHANGED otherVars

VC_switch_to_client ==
  /\ CanSwitch
  /\ \E t \in ClientTypes :
       /\ vc' = switch_to_client(vc, t)
       /\ last' = Call("switch_to_client", "None")
  /\ UNCHANGED orchestratorVars
  /\ UNCHANGED otherVars

VC_switch_client_by_strategy ==
  /\ CanSwitch
  /\ \E err \in ErrorHints :
       \E r \in IF vc.switching_strategy = "Random" THEN 0..(NumClients - 1) ELSE {0} :
         /\ vc' = switch_client_by_strategy(vc, err, r)
         /\ last' = Call("switch_client_by_strategy", err)
  /\ UNCHANGED orchestratorVars
  /\ UNCHANGED otherVars

VC_reset_client_switching ==
  /\ vc.client_switch_count > 0
  /\ vc' = reset_client_switching(vc)
  /\ last' = Call("reset_client_switching", "None")
  /\ UNCHANGED orchestratorVars
  /\ UNCHANGED otherVars

NextClient ==
  \/ VC_switch_client
  \/ VC_switch_to_client
  \/ VC_switch_client_by_strategy
  \/ VC_reset_client_switching

SpecClient == InitClient /\ [][NextClient]_vars

(***************************************************************************)
(* platform/innertube.rs : classification of playabilityStatus.            *)
(* A reason is a lower-cased sample text; Keywords gives the substrings    *)
(* the code looks for that occur in it.                                    *)
(***************************************************************************)
NoReason == "<no reason>"

Statuses == {"<missing>", "OK", "ERROR", "LOGIN_REQUIRED", "UNPLAYABLE", "LIVE_STREAM_OFFLINE"}

Reasons ==
  {NoReason,
   "video unavailable",
   "the uploader has not made this video available in your country",
   "blocked in your country on copyright grounds",
   "this video is only available in some regions",
   "geographic restriction",
   "rate limit exceeded",
   "quota exceeded",
   "this is a private video"}

Keywords(reason) ==
  CASE reason = "the uploader has not made this video available in your country"
         -> {"available in your country", "available in", "country"}
    [] reason = "blocked in your country on copyright grounds" -> {"country"}
    [] reason = "this video is only available in some regions"  -> {"available in"}
    [] reason = "geographic restriction" -> {"geograph"}
    [] reason = "rate limit exceeded"    -> {"rate limit"}
    [] reason = "quota exceeded"         -> {"quota"}
    [] reason = "this is a private video" -> {"private"}
    [] OTHER -> {}

Contains(reason, kw) == kw \in Keywords(reason)

\* geo-blocked is recognised by "country" or "available in"
PlayabilityClass_country(status, reason) ==
  CASE status = "ERROR" ->
         IF reason = NoReason THEN "VideoUnavailable"
         ELSE IF Contains(reason, "country") \/ Contains(reason, "available in")
              THEN "GeoBlocked"
         ELSE IF Contains(reason, "rate limit") \/ Contains(reason, "quota")
              THEN "RateLimited"
         ELSE "VideoUnavailable"
    [] status = "LOGIN_REQUIRED" -> "AgeRestricted"
    [] status = "UNPLAYABLE" ->
         IF reason # NoReason /\ Contains(reason, "private") THEN "Private"
         ELSE "VideoUnavailable"
    [] OTHER -> "Ok"

\* the value get_player_response returns for a parsed response
PlayabilityClass(status, reason) ==
  CASE status = "ERROR" ->
         IF reason = NoReason THEN "VideoUnavailable"
         ELSE IF Contains(reason, "geograph") \/ Contains(reason, "available in your country")
              THEN "GeoBlocked"
         ELSE IF Contains(reason, "rate limit") \/ Contains(reason, "quota")
              THEN "RateLimited"
         ELSE "VideoUnavailable"
    [] status = "LOGIN_REQUIRED" -> "AgeRestricted"
    [] status = "UNPLAYABLE" ->
         IF reason # NoReason /\ Contains(reason, "private") THEN "Private"
         ELSE "VideoUnavailable"
    [] OTHER -> "Ok"

(***************************************************************************)
(* core/downloader.rs : resolve_url                                        *)
(***************************************************************************)
\* one more retry
ResolveMaxRetries_more == 3 + 1

\* let max_retries = 3  (resolve_url)
ResolveMaxRetries == 3

\* HttpClientConfig::default().max_retries
HttpMaxRetries == 3

\* the number of pages ensure_api_key tries
NumSources == 4

\* the URLs handed to the orchestrator: every unparsed or unsupported-host URL, the rejected shapes on
\* the supported hosts and two accepted URLs
InputUrls ==
  {u \in Urls :
     \/ ~u.parses
     \/ u.host \notin SupportedHosts
     \/ u.host = "youtu.be" /\ u.path \in {<<>>, <<"dQw4w9WgXcQ">>} /\ u.v = NoV
     \/ u.host = "www.youtube.com"
          /\ u.path \in {<<"watch">>, <<"shorts", "">>, <<"channel", "UCxxx">>}}

Init ==
  /\ vc = DefaultClient
  /\ last = NoCall
  /\ mode \in {"resolve", "download"}
  /\ url \in InputUrls
  /\ tmp \in {Absent, StaleFile}
  /\ IdleOrchestrator
  /\ IdleOthers

\* resolve_url returns res to its caller; h is hist as updated so far
\* (its locals go out of scope)
ResolveReturns(res, h) ==
  /\ attempt' = 0 /\ last_error' = "none"
  /\ srcIdx' = 0 /\ ewrAttempt' = 0 /\ fetchRes' = "none"
  /\ IF mode = "resolve" \/ res # "Ok"
     THEN /\ pc' = "done"
          /\ result' = res
          /\ hist' = h
          /\ UNCHANGED <<dlAttempt, reresolve>>
     ELSE /\ pc' = "media_start"
          /\ result' = result
          /\ dlAttempt' = IF reresolve THEN dlAttempt + 1 ELSE 1
          /\ reresolve' = FALSE
          /\ hist' = [h EXCEPT !.regenerated = h.regenerated \/ reresolve,
                               !.loopFetches = 0, !.rotSinceFetch = 0,
                               !.rotHint = "None", !.sleptMs = 0]

\* the caller of get_player_response has taken its result
EwrForget(h) ==
  [h EXCEPT !.ewrSends = 0, !.ewrOutcome = "none", !.ewrSlept = 0,
            !.reqCtx = "none", !.reqFor = "none", !.reqAfterRot = FALSE,
            !.pageOutcome = "none", !.prStatus = "none", !.prReason = "none"]

\* get_player_response returns res
FetchReturns(res) ==
  /\ fetchRes' = res
  /\ pc' = IF who = "main" THEN "fetch_done" ELSE "probe_done"

\* resolve_url: extract_video_id(video_url)?
ResolveStart ==
  /\ pc = "start"
  /\ LET r == extract_video_id(url) IN
       IF ~r.ok
       THEN ResolveReturns(r.err, hist)
       ELSE /\ pc' = "resolve_loop"
            /\ attempt' = 0
            /\ last_error' = "none"
            /\ hist' = [hist EXCEPT !.loopFetches = 0, !.rotSinceFetch = 0,
                                    !.rotHint = "None", !.sleptMs = 0]
            /\ UNCHANGED <<result, dlAttempt, reresolve, srcIdx, ewrAttempt, fetchRes>>
  /\ UNCHANGED <<clientVars, mode, url, who, api_key, mediaVars>>
  /\ UNCHANGED otherVars

\* ensure_api_key fetches the pages even when the client has a key
NeedsBootstrap_always(w) == TRUE

\* ensure_api_key: the early return of a client that has its key
NeedsBootstrap(w) == ~api_key[w]

\* resolve_url: the loop calls inner_tube.get_player_response, which starts
\* with ensure_api_key
LoopFetch ==
  /\ pc = "resolve_loop"
  /\ attempt <= ResolveMaxRetries
  /\ who' = "main"
  /\ IF ~NeedsBootstrap("main")
     THEN pc' = "ewr" /\ ewrAttempt' = 0 /\ UNCHANGED srcIdx
     ELSE pc' = "bootstrap" /\ srcIdx' = 0 /\ UNCHANGED ewrAttempt
  /\ hist' = [hist EXCEPT !.loopFetches = hist.loopFetches + 1, !.rotSinceFetch = 0,
                          !.rotHint = "None", !.sleptMs = 0]
  /\ UNCHANGED <<clientVars, mode, url, result, attempt, last_error, api_key, fetchRes,
                 reresolve, dlAttempt, mediaVars>>
  /\ UNCHANGED otherVars

\* what a source page can give: the request fails, a status other than 2xx,
\* the body cannot be read, a body with the marker, a body without it
PageOutcomes == {"transport", "status", "text", "marker", "nomarker"}

\* the loop goes on to the next source after a failed request too
EndsBootstrap_never(outcome) == FALSE

\* ensure_api_key: the outcomes that leave the function through `?`
EndsBootstrap(outcome) == outcome \in {"transport", "text"}

\* ensure_api_key: one iteration of the loop over sources
BootstrapFetch ==
  /\ pc = "bootstrap"
  /\ srcIdx < NumSources /\ ~api_key[who]
  /\ \E outcome \in PageOutcomes :
     /\ hist' = [hist EXCEPT !.httpSent = TRUE, !.pageOutcome = outcome]
     /\ IF EndsBootstrap(outcome)
       THEN /\ FetchReturns("DownloadFailed")
            /\ UNCHANGED <<api_key, srcIdx, ewrAttempt>>
       ELSE LET found == (outcome = "marker")
                more  == ~found /\ srcIdx + 1 < NumSources
            IN /\ api_key' = [api_key EXCEPT ![who] = found]
               /\ srcIdx' = srcIdx + 1
               /\ IF more THEN pc' = "bootstrap" /\ UNCHANGED <<ewrAttempt, fetchRes>>
                  ELSE IF found THEN pc' = "ewr" /\ ewrAttempt' = 0 /\ UNCHANGED fetchRes
                  ELSE FetchReturns("ApiKeyNotFound") /\ UNCHANGED ewrAttempt
  /\ UNCHANGED <<clientVars, mode, url, result, attempt, last_error, who,
                 reresolve, dlAttempt, mediaVars>>
  /\ UNCHANGED otherVars

\* the switch execute_with_retry makes before it returns err (client.rs 678-696);
\* the probe's InnerTubeClient has a VideoClient of its own
EwrSwitch(err) ==
  IF who = "main" /\ vc.enable_client_switching
  THEN /\ vc' = switch_client_by_strategy(vc, err, 0)
       /\ last' = Call("switch_client_by_strategy", err)
  ELSE UNCHANGED clientVars

\* every outcome but success is followed by another attempt
IsRetriedByEwr_all(outcome) ==
  outcome \in {"status", "transport", "403", "botguard", "404"}

\* execute_with_retry: the outcomes that fall through to the backoff and the
\* next iteration: a transport error, and a status that is neither success nor
\* 403 nor 404
IsRetriedByEwr(outcome) == outcome \in {"status", "transport"}

\* execute_with_retry: Duration::from_millis(200 * (1 << attempt)), slept when
\* attempt < max_retries - 1
EwrBackoff(a) == IF a < HttpMaxRetries - 1 THEN 200 * 2^a ELSE 0

\* create_innertube_request: the X-YouTube-Client-Name of a client type
ClientNameHeader(t) ==
  CASE t \in {"Android", "SamsungBrowser", "AndroidTV"} -> "3"
    [] t = "Ios" -> "5"
    [] OTHER -> "1"

\* get_player_response: clientName of the request context, from the
\* client_name of the InnerTubeClient (ANDROID since new(), IOS for the probe)
ContextClientName(w) == IF w = "main" THEN "ANDROID" ELSE "IOS"

\* execute_with_retry: one iteration of the loop, and the classification of
\* the response it returns
EwrSend ==
  /\ pc = "ewr"
  /\ ewrAttempt < HttpMaxRetries
  /\ \E outcome \in {"json", "badjson", "botguard", "403", "404", "status", "transport"},
        st \in Statuses, rs \in Reasons :
       /\ outcome = "json" \/ (st = "<missing>" /\ rs = NoReason)
       /\ hist' = [hist EXCEPT !.httpSent = TRUE,
                               !.reqCtx = ContextClientName(who),
                               !.reqFor = vc.client_type,
                               !.reqAfterRot = /\ who = "main"
                                               /\ (hist.rotSinceFetch > 0 \/ hist.rotRL > 0),
                               !.prStatus = IF outcome = "json" THEN st ELSE "none",
                               !.prReason = IF outcome = "json" THEN rs ELSE "none",
                               !.ewrSends = hist.ewrSends + 1,
                               !.ewrOutcome = outcome,
                               !.ewrSlept = IF IsRetriedByEwr(outcome)
                                            THEN EwrBackoff(ewrAttempt) ELSE 0]
       /\ IF IsRetriedByEwr(outcome)
          THEN /\ IF ewrAttempt + 1 < HttpMaxRetries
                  THEN ewrAttempt' = ewrAttempt + 1 /\ UNCHANGED <<pc, fetchRes>>
                  ELSE FetchReturns("DownloadFailed") /\ UNCHANGED ewrAttempt
               /\ UNCHANGED clientVars
          ELSE CASE outcome = "json" ->
                      /\ FetchReturns(PlayabilityClass(st, rs))
                      /\ UNCHANGED <<clientVars, ewrAttempt>>
                 [] outcome = "botguard" ->
                      /\ EwrSwitch("BotguardError")
                      /\ FetchReturns("BotguardError")
                      /\ UNCHANGED ewrAttempt
                 [] outcome = "403" ->
                      /\ EwrSwitch("RateLimited")
                      /\ FetchReturns("RateLimited")
                      /\ UNCHANGED ewrAttempt
                 [] outcome = "404" ->
                      /\ EwrSwitch("VideoUnavailable")
                      /\ FetchReturns("VideoUnavailable")
                      /\ UNCHANGED ewrAttempt
                 [] OTHER -> \* the body is not the expected JSON
                      /\ FetchReturns("DownloadFailed")
                      /\ UNCHANGED <<clientVars, ewrAttempt>>
  /\ UNCHANGED <<mode, url, result, attempt, last_error, who, api_key, srcIdx,
                 reresolve, dlAttempt, mediaVars>>
  /\ UNCHANGED otherVars

\* the same pause after every attempt
AgeRestrictedSleep_flat(a) == IF a < ResolveMaxRetries THEN 500 ELSE 0

\* the sleep that follows an age-restricted answer: 500 * (attempt + 1) ms
AgeRestrictedSleep(a) == IF a < ResolveMaxRetries THEN 500 * (a + 1) ELSE 0

\* the retry arm is taken for every error is_retryable() accepts
IsRetriedInResolve_retryable(res) ==
  res \in {"AgeRestricted", "RateLimited", "DownloadFailed", "TimeoutError"}

\* resolve_url: the match arm Err(RytError::AgeRestricted)
IsRetriedInResolve(res) == res = "AgeRestricted"

\* resolve_url: the match on the value get_player_response returned
HandleFetch ==
  /\ pc = "fetch_done"
  /\ CASE fetchRes = "Ok" ->
            /\ pc' = "process"
            /\ hist' = EwrForget(hist)
            /\ UNCHANGED <<clientVars, result, attempt, last_error, reresolve, dlAttempt,
                           srcIdx, ewrAttempt, fetchRes>>
       [] IsRetriedInResolve(fetchRes) ->
            LET h == [EwrForget(hist) EXCEPT
                                  !.rotSinceFetch = hist.rotSinceFetch + 1,
                                  !.rotHint = "AgeRestricted",
                                  !.sleptMs = hist.sleptMs + AgeRestrictedSleep(attempt)]
            IN /\ vc' = switch_client_by_strategy(vc, "AgeRestricted", 0)
               /\ last' = Call("switch_client_by_strategy", "AgeRestricted")
               /\ IF attempt + 1 <= ResolveMaxRetries
                  THEN /\ pc' = "resolve_loop"
                       /\ last_error' = "AgeRestricted"
                       /\ attempt' = attempt + 1
                       /\ hist' = h
                       /\ UNCHANGED <<result, reresolve, dlAttempt, srcIdx, ewrAttempt,
                                      fetchRes>>
                  ELSE ResolveReturns("AgeRestricted", h)
       [] OTHER ->
            /\ ResolveReturns(fetchRes, EwrForget(hist))
            /\ UNCHANGED clientVars
  /\ UNCHANGED <<mode, url, who, api_key, mediaVars>>
  /\ UNCHANGED otherVars

\* process_player_response: without a muxed itag a fresh InnerTubeClient (IOS)
\* fetches the player response once more
ProcessPlayerResponse ==
  /\ pc = "process"
  /\ \E has_muxed \in BOOLEAN :
       IF has_muxed
       THEN pc' = "select" /\ UNCHANGED <<who, api_key, srcIdx>>
       ELSE /\ pc' = "bootstrap"
            /\ who' = "ios"
            /\ api_key' = [api_key EXCEPT !["ios"] = FALSE]
            /\ srcIdx' = 0
  /\ UNCHANGED <<clientVars, mode, url, result, attempt, last_error, ewrAttempt, fetchRes,
                 reresolve, dlAttempt, mediaVars, hist>>
  /\ UNCHANGED otherVars

\* process_player_response: whatever the probe returned, go on with a format list
ProbeDone ==
  /\ pc = "probe_done"
  /\ pc' = "select"
  /\ who' = "main"
  /\ hist' = EwrForget(hist)
  /\ UNCHANGED <<clientVars, mode, url, result, attempt, last_error, api_key, srcIdx,
                 ewrAttempt, fetchRes, reresolve, dlAttempt, mediaVars>>
  /\ UNCHANGED otherVars

\* process_player_response: format selection, deciphering and normalisation
SelectAndFinish ==
  /\ pc = "select"
  /\ \E outcome \in {"NoFormatFound", "direct", "direct_n", "cipher_ok",
                     "cipher_net", "cipher_err"} :
       LET res == CASE outcome = "NoFormatFound" -> "NoFormatFound"
                    [] outcome = "cipher_net"    -> "DownloadFailed"
                    [] outcome = "cipher_err"    -> "CipherError"
                    [] OTHER                     -> "Ok"
           net == outcome \notin {"NoFormatFound", "direct"}
       IN ResolveReturns(res, [hist EXCEPT !.httpSent = hist.httpSent \/ net])
  /\ UNCHANGED <<clientVars, mode, url, who, api_key, mediaVars>>
  /\ UNCHANGED otherVars

(***************************************************************************)
(* download/downloader.rs : ChunkedDownloader::download (streaming mode)   *)
(***************************************************************************)
\* the bytes of a body of n chunks, in stream order
Media(n) == File([i \in 1..n |-> i])

\* download_without_chunking returns res to ChunkedDownloader::download
StreamReturns(res) ==
  /\ mediaRes' = res
  /\ pc' = "dl_match"

\* a media GET is sent; code is what answers it
Sent(h, code) ==
  [h EXCEPT !.httpSent = TRUE,
            !.mediaReqs = h.mediaReqs + 1,
            !.reqsAfter403 = h.reqsAfter403 + (IF h.saw403 THEN 1 ELSE 0),
            !.saw403 = h.saw403 \/ code = "403",
            !.lastCode = code,
            !.resentAfterBad = h.resentAfterBad \/ h.sawBad,
            !.sawBad = h.sawBad \/ code = "status"]

\* the answer to a media GET is handled as if 403 were any other bad status
Answered_no403(code, isFirst) ==
  /\ CASE code = "success" ->
            /\ pc' = "stream"
            /\ \E n \in 0..MaxChunks : mediaLen' = n
            /\ UNCHANGED <<mediaRes, mIdx, mLast>>
       [] OTHER ->
            IF isFirst
            THEN /\ pc' = "media_loop" /\ mIdx' = 0 /\ mLast' = "none"
                 /\ UNCHANGED <<mediaRes, mediaLen>>
            ELSE /\ mLast' = "DownloadFailed"
                 /\ mIdx' = mIdx + 1
                 /\ IF mIdx + 1 < NumClients
                    THEN UNCHANGED <<pc, mediaRes>>
                    ELSE StreamReturns("DownloadFailed")
                 /\ UNCHANGED mediaLen

\* download_without_chunking: what follows the answer to a media GET
Answered(code, isFirst) ==
  /\ CASE code = "success" ->
            /\ pc' = "stream"
            /\ \E n \in 0..MaxChunks : mediaLen' = n
            /\ UNCHANGED <<mediaRes, mIdx, mLast>>
       [] code = "403" ->
            /\ StreamReturns("RateLimited")
            /\ UNCHANGED <<mediaLen, mIdx, mLast>>
       [] OTHER ->
            IF isFirst
            THEN /\ pc' = "media_loop" /\ mIdx' = 0 /\ mLast' = "none"
                 /\ UNCHANGED <<mediaRes, mediaLen>>
            ELSE /\ mLast' = "DownloadFailed"
                 /\ mIdx' = mIdx + 1
                 /\ IF mIdx + 1 < NumClients
                    THEN UNCHANGED <<pc, mediaRes>>
                    ELSE StreamReturns("DownloadFailed")
                 /\ UNCHANGED mediaLen

MediaAnswers == {"success", "403", "status", "transport"}

\* Downloader::download calls ChunkedDownloader::download, which creates the temp file
MediaStart ==
  /\ pc = "media_start"
  /\ dlAttempt >= 1
  /\ \E created \in BOOLEAN :
       LET h == [hist EXCEPT !.mediaFetches = hist.mediaFetches + 1, !.mediaReqs = 0,
                             !.saw403 = FALSE, !.reqsAfter403 = 0,
                             !.lastCode = "none", !.sawBad = FALSE,
                             !.resentAfterBad = FALSE]
       IN IF created
          THEN /\ tmp' = File(<<>>)
               /\ pc' = "media_first"
               /\ hist' = [h EXCEPT !.fsTouched = TRUE]
               /\ UNCHANGED mediaRes
          ELSE /\ mediaRes' = "IoError"
               /\ pc' = "media_done"
               /\ hist' = h
               /\ UNCHANGED tmp
  /\ mediaLen' = 0 /\ received' = 0 /\ eof' = FALSE /\ flushed' = FALSE /\ synced' = FALSE
  /\ UNCHANGED <<clientVars, mode, url, result, resolveVars, reresolve, dlAttempt,
                 mvc, mIdx, mLast, final>>
  /\ UNCHANGED otherVars

\* download_without_chunking: the GET with the current client
MediaFirst ==
  /\ pc = "media_first"
  /\ \E code \in MediaAnswers :
       /\ hist' = Sent(hist, code)
       /\ Answered(code, TRUE)
  /\ UNCHANGED <<clientVars, mode, url, result, resolveVars, reresolve, dlAttempt,
                 mvc, tmp, final, received, eof, flushed, synced>>
  /\ UNCHANGED otherVars

\* download_without_chunking: one iteration of the loop over ClientType::all()
MediaLoop ==
  /\ pc = "media_loop"
  /\ mIdx < NumClients
  /\ IF mvc.client_type = ClientAt(mIdx)
     THEN /\ mIdx' = mIdx + 1
          /\ IF mIdx + 1 < NumClients
             THEN UNCHANGED <<pc, mediaRes>>
             ELSE StreamReturns(IF mLast = "none" THEN "Generic" ELSE mLast)
          /\ UNCHANGED <<mvc, mLast, mediaLen, hist>>
     ELSE /\ mvc' = switch_to_client(mvc, ClientAt(mIdx))
          /\ \E code \in MediaAnswers :
               /\ hist' = Sent(hist, code)
               /\ Answered(code, FALSE)
  /\ UNCHANGED <<clientVars, mode, url, result, resolveVars, reresolve, dlAttempt,
                 tmp, final, received, eof, flushed, synced>>
  /\ UNCHANGED otherVars

\* a failed stream item ends the loop as the end of the stream does
StreamNext_swallow ==
  /\ pc = "stream"
  /\ \E outcome \in {"item", "stream_error", "write_error"} :
       CASE outcome = "item" /\ received < mediaLen ->
              /\ received' = received + 1
              /\ tmp' = File(Append(tmp.data, received + 1))
              /\ flushed' = FALSE /\ synced' = FALSE
              /\ hist' = [hist EXCEPT !.fsTouched = TRUE]
              /\ UNCHANGED <<pc, mediaRes, eof>>
         [] outcome = "item" /\ received >= mediaLen ->
              /\ eof' = TRUE
              /\ pc' = "psr_flush"
              /\ UNCHANGED <<received, tmp, flushed, synced, mediaRes, hist>>
         [] outcome = "stream_error" ->
              /\ pc' = "psr_flush"
              /\ UNCHANGED <<received, tmp, flushed, synced, eof, mediaRes, hist>>
         [] OTHER ->
              /\ received < mediaLen
              /\ received' = received + 1
              /\ StreamReturns("IoError")
              /\ UNCHANGED <<tmp, flushed, synced, eof, hist>>
  /\ UNCHANGED <<clientVars, mode, url, result, resolveVars, reresolve, dlAttempt,
                 mvc, mIdx, mLast, final, mediaLen>>
  /\ UNCHANGED otherVars

\* process_successful_response: stream.next() and the handling of its value
StreamNext ==
  /\ pc = "stream"
  /\ \E outcome \in {"item", "stream_error", "write_error"} :
       CASE outcome = "item" /\ received < mediaLen ->
              /\ received' = received + 1
              /\ tmp' = File(Append(tmp.data, received + 1))
              /\ flushed' = FALSE /\ synced' = FALSE
              /\ hist' = [hist EXCEPT !.fsTouched = TRUE]
              /\ UNCHANGED <<pc, mediaRes, eof>>
         [] outcome = "item" /\ received >= mediaLen ->
              /\ eof' = TRUE
              /\ pc' = "psr_flush"
              /\ UNCHANGED <<received, tmp, flushed, synced, mediaRes, hist>>
         [] outcome = "stream_error" ->
              /\ StreamReturns("DownloadFailed")
              /\ UNCHANGED <<received, tmp, flushed, synced, eof, hist>>
         [] OTHER ->
              /\ received < mediaLen
              /\ received' = received + 1
              /\ StreamReturns("IoError")
              /\ UNCHANGED <<tmp, flushed, synced, eof, hist>>
  /\ UNCHANGED <<clientVars, mode, url, result, resolveVars, reresolve, dlAttempt,
                 mvc, mIdx, mLast, final, mediaLen>>
  /\ UNCHANGED otherVars

\* process_successful_response: file.flush() after the loop
PsrFlush ==
  /\ pc = "psr_flush"
  /\ \E ok \in BOOLEAN :
       IF ok THEN flushed' = TRUE /\ pc' = "psr_sync" /\ UNCHANGED mediaRes
       ELSE StreamReturns("IoError") /\ UNCHANGED flushed
  /\ UNCHANGED <<clientVars, mode, url, result, resolveVars, reresolve, dlAttempt,
                 mvc, mIdx, mLast, tmp, final, mediaLen, received, eof, synced, hist>>
  /\ UNCHANGED otherVars

\* process_successful_response: file.sync_all(), then Ok(())
PsrSync ==
  /\ pc = "psr_sync"
  /\ \E ok \in BOOLEAN :
       IF ok THEN synced' = TRUE /\ StreamReturns("Ok")
       ELSE StreamReturns("IoError") /\ UNCHANGED synced
  /\ UNCHANGED <<clientVars, mode, url, result, resolveVars, reresolve, dlAttempt,
                 mvc, mIdx, mLast, tmp, final, mediaLen, received, eof, flushed, hist>>
  /\ UNCHANGED otherVars

\* the match arms are taken the wrong way round: rename after a failure
DlMatch_swapped ==
  /\ pc = "dl_match"
  /\ pc' = "media_done"
  /\ IF mediaRes # "Ok"
     THEN final' = tmp /\ tmp' = Absent
     ELSE tmp' = Absent /\ UNCHANGED final
  /\ hist' = [hist EXCEPT !.fsTouched = TRUE]
  /\ mIdx' = 0 /\ mLast' = "none"
  /\ UNCHANGED <<clientVars, mode, url, result, resolveVars, reresolve, dlAttempt,
                 mvc, mediaRes, mediaLen, received, eof, flushed, synced>>
  /\ UNCHANGED otherVars

\* ChunkedDownloader::download: the match on what download_without_chunking
\* returned: flush and rename, or remove the temp file
DlMatch ==
  /\ pc = "dl_match"
  /\ pc' = "media_done"
  /\ IF mediaRes = "Ok"
     THEN \E outcome \in {"flush_error", "renamed", "rename_error"} :
            IF outcome = "renamed"
            THEN /\ final' = tmp
                 /\ tmp' = Absent
                 /\ hist' = [hist EXCEPT !.fsTouched = TRUE]
                 /\ UNCHANGED mediaRes
            ELSE /\ mediaRes' = "IoError"
                 /\ UNCHANGED <<tmp, final, hist>>
     ELSE /\ tmp' = Absent
          /\ hist' = [hist EXCEPT !.fsTouched = TRUE]
          /\ UNCHANGED <<final, mediaRes>>
  /\ mIdx' = 0 /\ mLast' = "none"
  /\ UNCHANGED <<clientVars, mode, url, result, resolveVars, reresolve, dlAttempt,
                 mvc, mediaLen, received, eof, flushed, synced>>
  /\ UNCHANGED otherVars

\* let max_attempts = 2u32  (Downloader::download)
MaxAttempts == 2

\* the retry arm is taken after every failure
ShouldRegenerate_any(res, att) == res # "Ok" /\ att < MaxAttempts

\* Downloader::download: the match arm Err(RytError::RateLimited) if attempt < max_attempts
ShouldRegenerate(res, att) == res = "RateLimited" /\ att < MaxAttempts

\* Downloader::download: the match on what ChunkedDownloader::download returned
MediaDone ==
  /\ pc = "media_done"
  /\ LET h == IF hist.mediaFetches = 1
              THEN [hist EXCEPT !.firstMediaRes = mediaRes] ELSE hist
     IN IF ShouldRegenerate(mediaRes, dlAttempt)
        THEN /\ vc' = switch_client_by_strategy(vc, "RateLimited", 0)
             /\ last' = Call("switch_client_by_strategy", "RateLimited")
             /\ hist' = [h EXCEPT !.rotRL = h.rotRL + 1]
             /\ reresolve' = TRUE
             /\ pc' = "start"
             /\ UNCHANGED result
        ELSE /\ result' = mediaRes
             /\ pc' = "done"
             /\ hist' = h
             /\ UNCHANGED <<clientVars, reresolve>>
  /\ UNCHANGED <<mode, url, resolveVars, dlAttempt, mediaVars>>
  /\ UNCHANGED otherVars

Next ==
  \/ ResolveStart
  \/ LoopFetch
  \/ BootstrapFetch
  \/ EwrSend
  \/ HandleFetch
  \/ ProcessPlayerResponse
  \/ ProbeDone
  \/ SelectAndFinish
  \/ MediaStart
  \/ MediaFirst
  \/ MediaLoop
  \/ StreamNext
  \/ PsrFlush
  \/ PsrSync
  \/ DlMatch
  \/ MediaDone

Spec == Init /\ [][Next]_vars

(***************************************************************************)
(* Properties.                                                             *)
(***************************************************************************)
Terminal == pc = "done"

InFetchCall == pc \in {"media_first", "media_loop", "stream", "psr_flush", "psr_sync"}

C2_AtMostTwoFetches ==
  /\ [](/\ hist.mediaFetches <= 2
        /\ hist.mediaFetches = 2 =>
             /\ hist.firstMediaRes = "RateLimited"
             /\ hist.rotRL = 1
             /\ hist.regenerated)
  /\ [][/\ hist'.rotRL # hist.rotRL =>
             /\ last'.hint = "RateLimited"
             /\ vc'.client_type # vc.client_type
             /\ pc' = "start"
        /\ (/\ pc = "media_done"
            /\ mediaRes # "Ok"
            /\ ~(mediaRes = "RateLimited" /\ hist.mediaFetches = 1)) =>
             /\ pc' = "done"
             /\ result' = mediaRes
             /\ hist'.mediaFetches = hist.mediaFetches]_vars

C2_Witness ==
  /\ Terminal /\ hist.mediaFetches = 2 /\ hist.firstMediaRes = "RateLimited"
  /\ result = "RateLimited"

\* C3: in streaming mode, the first 403 that answers a media GET ends the fetch
\* call: it returns RateLimited and sends no other media GET, whatever the
\* identity.
C3_Stop403 ==
  /\ hist.reqsAfter403 = 0
  /\ hist.saw403 => (mediaRes = "RateLimited" /\ ~InFetchCall)

C3_Witness ==
  /\ hist.saw403 /\ hist.mediaReqs >= 2 /\ pc = "media_done" /\ mediaRes = "RateLimited"

\* C4: the temp file is renamed to the output path only when the body stream
\* has ended, every chunk taken from it is in the temp file, and flush and
\* sync_all have succeeded; never after the request or the stream has failed.
C4_RenameAfterEof ==
  [][final' # final =>
       /\ mediaRes = "Ok"
       /\ eof /\ flushed /\ synced
       /\ received = mediaLen
       /\ tmp = Media(received)
       /\ final' = tmp]_vars

C4_Witness ==
  /\ final # Absent /\ Len(final.data) >= 1 /\ eof /\ flushed /\ synced

\* C5 (as stated): the loop of one resolve_url call makes at most 3
\* player-response fetches.
C5_AtMostThree == hist.loopFetches <= 3

\* C5 (amended): the loop of one resolve_url call makes at most 4
\* player-response fetches: the first attempt and max_retries = 3 retries.
C5_AtMostFour == hist.loopFetches <= 4

C5_Witness == hist.loopFetches = 4 /\ pc = "fetch_done" /\ attempt = 3

\* C6: when the loop of resolve_url starts another attempt, the identity has
\* been rotated exactly once since the previous fetch, with hint AgeRestricted,
\* and resolve_url has slept 500 ms times the number of attempts made so far.
C6_RotateOnceAndSleep ==
  (pc = "resolve_loop" /\ attempt >= 1) =>
     /\ hist.rotSinceFetch = 1
     /\ hist.rotHint = "AgeRestricted"
     /\ last.op = "switch_client_by_strategy" /\ last.hint = "AgeRestricted"
     /\ vc.client_type # last.before
     /\ hist.sleptMs = 500 * attempt

C6_Witness ==
  /\ pc = "resolve_loop" /\ attempt = 2 /\ hist.sleptMs = 1000 /\ hist.rotSinceFetch = 1

\* C7: when a fetch of the resolve_url loop returns an error other than
\* AgeRestricted, resolve_url returns that error at once and makes no other
\* fetch.
C7_PropagateOther ==
  [][(pc = "fetch_done" /\ fetchRes \notin {"Ok", "AgeRestricted"}) =>
       /\ pc' = "done"
       /\ result' = fetchRes
       /\ hist'.loopFetches = hist.loopFetches]_vars

C7_Witness ==
  /\ Terminal /\ result = "GeoBlocked" /\ hist.loopFetches = 2

\* C8: for a URL that parses and whose host is not a supported one, resolve_url
\* and download return InvalidUrl, and no HTTP request is sent and no file is
\* created, written, renamed or removed.
C8_UnsupportedHost ==
  (url.parses /\ url.host \notin SupportedHosts) =>
     /\ ~hist.httpSent
     /\ ~hist.fsTouched
     /\ final = Absent
     /\ pc \in {"start", "done"}
     /\ Terminal => result = "InvalidUrl"

C8_Witness ==
  /\ Terminal /\ mode = "download" /\ url.parses /\ url.host = "example.com"
  /\ result = "InvalidUrl" /\ ~hist.httpSent

RotatedOn(hints) == last.op = "switch_client_by_strategy" /\ last.hint \in hints

\* the list entry after the cursor the client had before the call
CursorNext == ClientAt((last.beforeIdx + 1) % NumClients)

\* C9 (as stated): after a rotation with hint RateLimited or BotguardError the
\* identity is a mobile one if it was a desktop browser, and otherwise the list
\* entry that follows the previous identity.
C9_Original ==
  RotatedOn({"RateLimited", "BotguardError"}) =>
     IF is_web(last.before)
     THEN is_mobile(vc.client_type)
     ELSE vc.client_type = ClientAt((PositionOf(last.before) + 1) % NumClients)

\* C9 (amended): after a rotation with hint RateLimited or BotguardError:
\* with the OnError strategy a desktop browser is replaced by Android, and any
\* other identity by the list entry after the client's cursor; with the Smart
\* and RoundRobin strategies every identity is replaced by the list entry after
\* the cursor; with OnGeoBlock the identity stays.  An advance along the list
\* leaves the identity unchanged when client switching is disabled.
C9_RotationOnRateLimit ==
  RotatedOn({"RateLimited", "BotguardError"}) =>
     CASE vc.switching_strategy = "OnError" /\ is_web(last.before) ->
            vc.client_type = "Android"
       [] vc.switching_strategy \in {"OnError", "Smart", "RoundRobin"} ->
            IF vc.enable_client_switching
            THEN vc.client_type = CursorNext
            ELSE vc.client_type = last.before
       [] vc.switching_strategy = "OnGeoBlock" -> vc.client_type = last.before
       [] OTHER -> vc.client_type \in ClientTypes

C9_Witness ==
  /\ RotatedOn({"RateLimited"}) /\ vc.switching_strategy = "OnError"
  /\ is_web(last.before) /\ vc.client_type = "Android"

\* C10: after a rotation with hint AgeRestricted the identity is a mobile one,
\* whatever it was before.
C10_AlwaysMobile ==
  RotatedOn({"AgeRestricted"}) => is_mobile(vc.client_type)

(***************************************************************************)
(* download/downloader.rs : ChunkedDownloader::download_with_resume (ranged *)
(* mode).  The media behind the URL has resume.content bytes, numbered     *)
(* 1..content in stream order; a range request for bytes=start-end is      *)
(* answered 206 with the bytes of that range, 200 with the whole media (a  *)
(* server that ignores Range), 416 when start is past the end, 403,        *)
(* another status, or not at all.                                          *)
(***************************************************************************)
\* DownloaderConfig::default().max_retries
ChunkMaxRetries == 3

\* the bytes lo..hi of the stream (empty when lo > hi)
Bytes(lo, hi) == [i \in 1..(IF hi >= lo THEN hi - lo + 1 ELSE 0) |-> lo + i - 1]

Min(a, b) == IF a <= b THEN a ELSE b

\* the locals of download_with_resume for media of c bytes and chunk size b
NewResume(c, b) ==
  [IdleResume EXCEPT !.pc = "start", !.content = c, !.chunk_size = b]

\* download_with_resume returns res
ResumeReturns(r, res) == [r EXCEPT !.pc = "done", !.result = res]

\* download_with_resume: tmp_path.exists() and metadata(&tmp_path).await?.len()
RsStart ==
  /\ resume.pc = "start"
  /\ \E meta_ok \in (IF tmp.exists THEN BOOLEAN ELSE {TRUE}) :
       resume' = IF meta_ok
                 THEN [resume EXCEPT !.pc = "probe", !.probeIdx = 0,
                                     !.existing_size = Len(tmp.data)]
                 ELSE ResumeReturns(resume, "IoError")
  /\ UNCHANGED <<clientVars, mode, url, pc, result, resolveVars, reresolve, dlAttempt,
                 mediaVars, hist, retry, limiter, pureVars>>

\* get_content_length: one iteration of the loop over ClientType::all(), a GET
\* with Range: bytes=0-1, and parse_content_length_from_response
RsProbe ==
  /\ resume.pc = "probe"
  /\ resume.probeIdx < NumClients
  /\ mvc' = switch_to_client(mvc, ClientAt(resume.probeIdx))
  /\ \E outcome \in {"total", "no_header", "failed"} :
       resume' =
         CASE outcome = "total" ->
                [resume EXCEPT !.pc = "check", !.total_size = resume.content]
           [] outcome = "no_header" ->
                [resume EXCEPT !.pc = "check", !.total_size = 0]
           [] OTHER ->
                IF resume.probeIdx + 1 < NumClients
                THEN [resume EXCEPT !.probeIdx = resume.probeIdx + 1]
                ELSE [resume EXCEPT !.pc = "check", !.total_size = 0,
                                    !.probeIdx = resume.probeIdx + 1]
  /\ UNCHANGED <<clientVars, mode, url, pc, result, resolveVars, reresolve, dlAttempt,
                 mIdx, mLast, mediaRes, tmp, final, mediaLen, received, eof, flushed,
                 synced, hist, retry, limiter, pureVars>>

\* download_with_resume: the early return for a complete file, and
\* OpenOptions::new().create(true).append(true).open(&tmp_path)
RsCheck ==
  /\ resume.pc = "check"
  /\ IF resume.total_size > 0 /\ resume.existing_size >= resume.total_size
     THEN /\ resume' = ResumeReturns(resume, "Ok")
          /\ UNCHANGED tmp
     ELSE \E opened \in BOOLEAN :
            IF opened
            THEN /\ tmp' = IF tmp.exists THEN tmp ELSE File(<<>>)
                 /\ resume' = [resume EXCEPT !.pc = "loop",
                                             !.downloaded = resume.existing_size]
            ELSE /\ resume' = ResumeReturns(resume, "IoError")
                 /\ UNCHANGED tmp
  /\ UNCHANGED <<clientVars, mode, url, pc, result, resolveVars, reresolve, dlAttempt,
                 mvc, mIdx, mLast, mediaRes, final, mediaLen, received, eof, flushed,
                 synced, hist, retry, limiter, pureVars>>

\* download_with_resume: the loop condition and the range of the next chunk
RsLoop ==
  /\ resume.pc = "loop"
  /\ resume' =
       IF resume.downloaded < resume.total_size \/ resume.total_size = 0
       THEN [resume EXCEPT
               !.pc = "chunk", !.attempt = 0, !.last_error = "none",
               !.start = resume.downloaded,
               !.end = IF resume.total_size > 0
                       THEN Min(resume.downloaded + resume.chunk_size - 1,
                                resume.total_size - 1)
                       ELSE resume.downloaded + resume.chunk_size - 1]
       ELSE [resume EXCEPT !.pc = "flush"]
  /\ UNCHANGED <<clientVars, orchestratorVars, retry, limiter, pureVars>>

\* cap on the length of the temp file: a server that ignores Range is followed
\* only while the file stays within it
MaxFileLen == 2 * MaxContent

\* the answers the server can give to a request for bytes=start-...
\* ("empty" is a 2xx answer with an empty body)
RangeAnswers(start, content) ==
  (IF start < content THEN {"206"} ELSE {"416"})
    \cup (IF start + content <= MaxFileLen THEN {"200"} ELSE {})
    \cup {"empty", "403", "status", "transport"}

\* download_chunk: the body of a successful answer
ChunkBody(code, r) ==
  IF code = "206" THEN Bytes(r.start + 1, Min(r.end + 1, r.content))
  ELSE IF code = "empty" THEN <<>>
  ELSE Bytes(1, r.content)

\* every failed range request is reported as DownloadFailed
ChunkError_plain(code) == "DownloadFailed"

\* download_chunk: the error for an answer that is neither success nor 206, and
\* for a request or a body that fails
ChunkError(code) == IF code = "403" THEN "RateLimited" ELSE "DownloadFailed"

\* only a rate-limited chunk is asked for again
IsChunkRetried_rate(res) == res = "RateLimited"

\* download_chunk_with_retry: the arm Err(e) of its match takes every error
IsChunkRetried(res) == res # "Ok"

\* download_chunk_with_retry: Duration::from_millis(200 * (1 << attempt)), slept
\* when attempt < max_retries - 1
ChunkBackoff(a) == IF a < ChunkMaxRetries - 1 THEN 200 * 2^a ELSE 0

\* a range request is sent and answered with code
\* (codes: the refusals seen so far; lastCode: the last answer; resentAfterBad:
\* a range request was sent after one was answered with a status other than
\* 2xx, 403 and 416)
RangeSent(r, code) ==
  [r EXCEPT !.resentAfterBad = r.resentAfterBad \/ "status" \in r.codes,
            !.codes = r.codes \cup ({code} \cap {"403", "416", "status"}),
            !.lastCode = code,
            !.slept = 0]

\* download_chunk_with_retry: download_chunk failed with e
ChunkFailed(r, e) ==
  IF IsChunkRetried(e) /\ r.attempt + 1 < ChunkMaxRetries
  THEN [r EXCEPT !.attempt = r.attempt + 1, !.last_error = e,
                 !.slept = ChunkBackoff(r.attempt)]
  ELSE ResumeReturns([r EXCEPT !.last_error = e], e)

\* download_with_resume: one download_chunk call of download_chunk_with_retry,
\* and for its data write_all, the progress and the test that ends the loop
RsChunk ==
  /\ resume.pc = "chunk"
  /\ resume.attempt < ChunkMaxRetries
  /\ \E code \in RangeAnswers(resume.start, resume.content) :
       LET r == RangeSent(resume, code) IN
       IF code \in {"206", "200", "empty"}
       THEN \E outcome \in {"written", "body_error", "write_error"} :
              CASE outcome = "written" ->
                     LET data == ChunkBody(code, r) IN
                     /\ tmp' = File(tmp.data \o data)
                     /\ resume' =
                          [r EXCEPT !.downloaded = r.downloaded + Len(data),
                                    !.pc = IF r.total_size = 0 /\ Len(data) < r.chunk_size
                                           THEN "flush" ELSE "loop"]
                [] outcome = "body_error" ->
                     /\ resume' = ChunkFailed(r, ChunkError("transport"))
                     /\ UNCHANGED tmp
                [] OTHER ->
                     /\ resume' = ResumeReturns(r, "IoError")
                     /\ UNCHANGED tmp
       ELSE /\ resume' = ChunkFailed(r, ChunkError(code))
            /\ UNCHANGED tmp
  /\ UNCHANGED <<clientVars, mode, url, pc, result, resolveVars, reresolve, dlAttempt,
                 mvc, mIdx, mLast, mediaRes, final, mediaLen, received, eof, flushed,
                 synced, hist, retry, limiter, pureVars>>

\* download_with_resume: file.flush() and file.sync_all() after the loop
RsFlush ==
  /\ resume.pc = "flush"
  /\ \E ok \in BOOLEAN :
       resume' = IF ok THEN [resume EXCEPT !.pc = "finalize"]
                 ELSE ResumeReturns(resume, "IoError")
  /\ UNCHANGED <<clientVars, orchestratorVars, retry, limiter, pureVars>>

\* download_with_resume: rename temp -> final when data was written, otherwise
\* remove the temp file and fail
RsFinalize ==
  /\ resume.pc = "finalize"
  /\ IF \/ resume.total_size = 0 /\ resume.downloaded > 0
        \/ resume.total_size > 0 /\ resume.downloaded >= resume.total_size
     THEN \E renamed \in BOOLEAN :
            IF renamed
            THEN /\ final' = tmp
                 /\ tmp' = Absent
                 /\ resume' = ResumeReturns(resume, "Ok")
            ELSE /\ resume' = ResumeReturns(resume, "IoError")
                 /\ UNCHANGED <<tmp, final>>
     ELSE /\ tmp' = Absent
          /\ resume' = ResumeReturns(resume, "Generic")
          /\ UNCHANGED final
  /\ UNCHANGED <<clientVars, mode, url, pc, result, resolveVars, reresolve, dlAttempt,
                 mvc, mIdx, mLast, mediaRes, mediaLen, received, eof, flushed,
                 synced, hist, retry, limiter, pureVars>>

(***************************************************************************)
(* The media fetcher alone: one call of ChunkedDownloader::download        *)
(* (streaming) or of download_with_resume (ranged), on a temp path that is *)
(* free, holds the first bytes of the same media, or holds something else. *)
(***************************************************************************)
InitFetcher ==
  /\ vc = DefaultClient /\ last = NoCall
  /\ url = CHOOSE u \in Urls : TRUE
  /\ result = "none"
  /\ attempt = 0 /\ last_error = "none" /\ who = "main"
  /\ api_key = [w \in {"main", "ios"} |-> FALSE]
  /\ srcIdx = 0 /\ ewrAttempt = 0 /\ fetchRes = "none"
  /\ reresolve = FALSE
  /\ mvc = DefaultClient
  /\ mIdx = 0 /\ mLast = "none" /\ mediaRes = "none"
  /\ final = Absent
  /\ mediaLen = 0 /\ received = 0 /\ eof = FALSE /\ flushed = FALSE /\ synced = FALSE
  /\ hist = HistInit
  /\ retry = IdleRetry /\ limiter = IdleLimiter /\ IdlePure
  /\ mode \in {"streaming", "ranged"}
  /\ IF mode = "streaming"
     THEN /\ pc = "media_start" /\ dlAttempt = 1
          /\ resume = IdleResume
          /\ tmp \in {Absent, StaleFile}
     ELSE /\ pc = "ranged" /\ dlAttempt = 0
          /\ \E c \in 1..MaxContent, b \in 1..MaxChunkSize :
               /\ resume = NewResume(c, b)
               /\ tmp \in {Absent, StaleFile} \cup {File(Bytes(1, k)) : k \in 0..c}

NextFetcher ==
  \/ MediaStart
  \/ MediaFirst
  \/ MediaLoop
  \/ StreamNext
  \/ PsrFlush
  \/ PsrSync
  \/ DlMatch
  \/ RsStart
  \/ RsProbe
  \/ RsCheck
  \/ RsLoop
  \/ RsChunk
  \/ RsFlush
  \/ RsFinalize

SpecFetcher == InitFetcher /\ [][NextFetcher]_vars

\* the streaming fetch has returned to ChunkedDownloader::download
StreamReturned == mode = "streaming" /\ pc \in {"dl_match", "media_done"}

\* download_with_resume has returned
ResumeReturned == resume.pc = "done"

IsPrefix(a, b) == Len(a) <= Len(b) /\ \A i \in 1..Len(a) : a[i] = b[i]

\* the download holds the temp file open
StreamingOpen ==
  mode = "streaming" /\ pc \in {"media_first", "media_loop", "stream", "psr_flush",
                                "psr_sync", "dl_match"}

RangedOpen == resume.pc \in {"loop", "chunk", "flush", "finalize"}

\* C16: while a download holds the temp file, its contents are a prefix of the
\* media byte stream (no gap, no reordering, no range written twice), in
\* streaming mode and in ranged mode, also when the ranged download resumes.
C16_StreamOrder ==
  /\ (StreamingOpen /\ tmp.exists) => IsPrefix(tmp.data, Bytes(1, mediaLen))
  /\ (RangedOpen /\ tmp.exists) => IsPrefix(tmp.data, Bytes(1, resume.content))

C18_Complete416 ==
  (ResumeReturned /\ resume.existing_size > 0 /\ resume.lastCode = "416") =>
     resume.result = "Ok"

\* C19: when a ranged download of a stream with known content length C reports
\* success, the file at the final path has exactly C bytes, whatever the temp
\* file of an earlier run held.
C19_SizeOnSuccess ==
  (ResumeReturned /\ resume.result = "Ok" /\ resume.total_size > 0) =>
     /\ final.exists
     /\ Len(final.data) = resume.content

(***************************************************************************)
(* error.rs : RytError::is_retryable, and download/retry.rs :              *)
(* RetryExecutor::execute driving a fallible operation func.               *)
(***************************************************************************)
\* what func() can return: Ok or a RytError
FuncResults ==
  {"Ok", "GeoBlocked", "RateLimited", "AgeRestricted", "Private", "VideoUnavailable",
   "DownloadFailed", "TimeoutError", "BotguardError", "Generic"}

\* geo-blocked answers are repeated too
is_retryable_geo(e) ==
  e \in {"DownloadFailed", "TimeoutError", "RateLimited", "AgeRestricted", "GeoBlocked"}

is_retryable(e) == e \in {"DownloadFailed", "TimeoutError", "RateLimited", "AgeRestricted"}

\* RetryConfig::default(): initial_delay and max_delay in ms, backoff_multiplier,
\* jitter_factor in percent
InitialDelayMs == 200

MaxDelayMs == 30000

BackoffMultiplier == 2

JitterPercent == 10

\* RetryExecutor::with_config(RetryConfig { max_retries: m, ..default }) and the
\* locals of execute before its loop
\* the configurations a caller passes to with_config: the default, the one of
\* test_retry_executor_max_delay_cap, one that does not grow, and one whose
\* initial_delay is above its max_delay (delays in ms, whole multipliers)
RetryConfigs ==
  { [initial_delay |-> InitialDelayMs, max_delay |-> MaxDelayMs,
     backoff_multiplier |-> BackoffMultiplier],
    [initial_delay |-> 100, max_delay |-> 200, backoff_multiplier |-> 10],
    [initial_delay |-> 100, max_delay |-> 200, backoff_multiplier |-> 1],
    [initial_delay |-> 500, max_delay |-> 200, backoff_multiplier |-> BackoffMultiplier] }

NewExecute(m, c) ==
  [pc |-> "call", max_retries |-> m, attempt |-> 0, last_error |-> "none",
   initial_delay |-> c.initial_delay, max_delay |-> c.max_delay,
   backoff_multiplier |-> c.backoff_multiplier,
   delay |-> c.initial_delay, base |-> 0, slept |-> 0, calls |-> 0,
   result |-> "none"]

InitRetry ==
  /\ vc = DefaultClient /\ last = NoCall
  /\ mode = "retry" /\ url = CHOOSE u \in Urls : TRUE
  /\ tmp = Absent
  /\ IdleOrchestrator
  /\ retry \in {NewExecute(m, c) : m \in 0..MaxRetryConfig, c \in RetryConfigs}
  /\ resume = IdleResume /\ limiter = IdleLimiter /\ IdlePure

\* the loop gives up one attempt early
ExecuteCall_short ==
  /\ retry.pc = "call"
  /\ retry.attempt <= retry.max_retries
  /\ \E r \in FuncResults :
       LET called == [retry EXCEPT !.calls = retry.calls + 1, !.slept = 0] IN
       IF r = "Ok"
       THEN retry' = [called EXCEPT !.pc = "done", !.result = "Ok"]
       ELSE IF ~is_retryable(r)
       THEN retry' = [called EXCEPT !.pc = "done", !.last_error = r, !.result = r]
       ELSE IF retry.attempt + 1 < retry.max_retries
       THEN retry' = [called EXCEPT !.pc = "sleep", !.last_error = r]
       ELSE retry' = [called EXCEPT !.pc = "done", !.last_error = r, !.result = r]
  /\ UNCHANGED <<clientVars, orchestratorVars, resume, limiter, pureVars>>

\* execute: func().await and the match on its result, up to the sleep
ExecuteCall ==
  /\ retry.pc = "call"
  /\ retry.attempt <= retry.max_retries
  /\ \E r \in FuncResults :
       LET called == [retry EXCEPT !.calls = retry.calls + 1, !.slept = 0] IN
       IF r = "Ok"
       THEN retry' = [called EXCEPT !.pc = "done", !.result = "Ok"]
       ELSE IF ~is_retryable(r)
       THEN retry' = [called EXCEPT !.pc = "done", !.last_error = r, !.result = r]
       ELSE IF retry.attempt < retry.max_retries
       THEN retry' = [called EXCEPT !.pc = "sleep", !.last_error = r]
       ELSE retry' = [called EXCEPT !.pc = "done", !.last_error = r, !.result = r]
  /\ UNCHANGED <<clientVars, orchestratorVars, resume, limiter, pureVars>>

\* execute: the sleep of delay plus jitter, and the next delay
ExecuteSleep ==
  /\ retry.pc = "sleep"
  /\ LET jitter_range == (retry.delay * JitterPercent) \div 100
         grown == retry.delay * retry.backoff_multiplier
     IN \E jitter \in {0, jitter_range \div 2, jitter_range} :
          retry' = [retry EXCEPT !.pc = "call",
                                 !.base = retry.delay,
                                 !.slept = retry.delay + jitter,
                                 !.delay = IF grown > retry.max_delay
                                           THEN retry.max_delay ELSE grown,
                                 !.attempt = retry.attempt + 1]
  /\ UNCHANGED <<clientVars, orchestratorVars, resume, limiter, pureVars>>

NextRetry ==
  \/ ExecuteCall
  \/ ExecuteSleep

SpecRetry == InitRetry /\ [][NextRetry]_vars

\* C14 as stated: after an outcome classified geo-blocked, private or
\* age-restricted the retry policy does not call the operation again: the
\* outcome is returned after that attempt.
C14_Original ==
  retry.last_error \in {"GeoBlocked", "Private", "AgeRestricted"} =>
     /\ retry.pc = "done"
     /\ retry.result = retry.last_error

\* C14, amended: after an outcome classified geo-blocked or private the retry
\* policy does not call the operation again and returns that outcome; an
\* age-restricted outcome is retryable: it is returned only when max_retries
\* retries are used up, and otherwise the operation is called again after the
\* backoff.
C14_NonRetryable ==
  /\ retry.last_error \in {"GeoBlocked", "Private"} =>
        /\ retry.pc = "done"
        /\ retry.result = retry.last_error
  /\ (retry.last_error = "AgeRestricted" /\ retry.pc = "done" /\ retry.result # "Ok") =>
        /\ retry.calls = retry.max_retries + 1
        /\ retry.result = "AgeRestricted"

\* a geo-blocked answer to the second call (the first was retried) was returned
C14_Witness ==
  /\ retry.pc = "done" /\ retry.result = "GeoBlocked" /\ retry.calls = 2
  /\ retry.max_retries = 3

(***************************************************************************)
(* Round-robin rotation and the enable_client_switching flag.              *)
(***************************************************************************)
\* the calls that ask the client to rotate
RotationOps == {"switch_client", "switch_to_client", "switch_client_by_strategy"}

\* the last call was a rotation without a hint that the strategy sends to
\* switch_client (RoundRobin, and Smart's "No error, use round-robin")
RoundRobinCall ==
  \/ last.op = "switch_client"
  \/ /\ last.op = "switch_client_by_strategy"
     /\ last.hint = "None"
     /\ vc.switching_strategy \in {"RoundRobin", "Smart"}

\* C11: with no failure hint and switching enabled, a rotation moves from the
\* identity at position i of the fixed list to the identity at position
\* (i + 1) mod n, so that k rotations lead to position (i + k) mod n and two
\* consecutive rotations never yield the same identity.
C11_NextInListOrder ==
  (RoundRobinCall /\ vc.enable_client_switching) =>
     /\ vc.client_type = ClientAt((PositionOf(last.before) + 1) % NumClients)
     /\ vc.client_type # last.before

\* C12: when client switching is disabled, no rotation request changes the
\* current identity or the switch counter, for every strategy and every hint.
C12_DisabledNoChange ==
  [][(~vc.enable_client_switching /\ last'.op \in RotationOps /\ last' # last) =>
        /\ vc'.client_type = vc.client_type
        /\ vc'.client_switch_count = vc.client_switch_count]_vars

(***************************************************************************)
(* The retry loop of the HTTP adapter (execute_with_retry).                *)
(***************************************************************************)
\* get_player_response has returned to its caller
FetchReturned == pc \in {"fetch_done", "probe_done"}

\* C13 as stated: an outcome that is a transport error or is classified
\* rate-limited, bot-challenge or unavailable is followed by another attempt
\* while fewer than N attempts were made, so that the adapter returns after
\* such an outcome only when N requests have been sent.
C13_Original ==
  (FetchReturned /\ hist.ewrOutcome \in {"transport", "403", "botguard", "404"}) =>
     hist.ewrSends = HttpMaxRetries

\* C13, amended: a transport error or a status other than success, 403 and 404
\* is followed, while fewer than N = 3 requests were sent, by a backoff of
\* 200 * 2^attempt ms and another request, and the adapter gives up with
\* DownloadFailed only after N requests; a 403 (bot challenge or rate limit)
\* or a 404 is never retried: the adapter returns BotguardError, RateLimited or
\* VideoUnavailable at once.
C13_RetryPolicy ==
  /\ (pc = "ewr" /\ hist.ewrSends > 0) =>
        /\ hist.ewrOutcome \in {"transport", "status"}
        /\ hist.ewrSends < HttpMaxRetries
        /\ hist.ewrSlept = 200 * 2^(hist.ewrSends - 1)
  /\ (FetchReturned /\ hist.ewrOutcome \in {"transport", "status"}) =>
        /\ hist.ewrSends = HttpMaxRetries
        /\ fetchRes = "DownloadFailed"
  /\ (FetchReturned /\ hist.ewrOutcome \in {"403", "botguard", "404"}) =>
        /\ hist.ewrSends <= HttpMaxRetries
        /\ fetchRes = CASE hist.ewrOutcome = "403" -> "RateLimited"
                        [] hist.ewrOutcome = "botguard" -> "BotguardError"
                        [] OTHER -> "VideoUnavailable"

\* a transport error was retried after the backoff, and the 403 that answered
\* the second request was returned at once
C13_Witness ==
  /\ pc = "fetch_done" /\ hist.ewrOutcome = "403" /\ hist.ewrSends = 2
  /\ fetchRes = "RateLimited"

\* ---------------------------------------------------------------------------
\* download/downloader.rs: RateLimiter, alone.  Time is in milliseconds and
\* the rate in bytes per millisecond; a stream is a sequence of chunks, each
\* handed to wait_if_needed once it has arrived.
\* ---------------------------------------------------------------------------

MaxLimiterChunks == 2

\* rates given to with_rate_limit: 100 KB/s and 1 MB/s
LimiterRates == {100, 1000}

\* time between with_rate_limit and the start of the download
LimiterIdleTimes == {0, 1000, 5000}

\* time the network takes to deliver one chunk
ArrivalTimes == {1, 100, 1000, 2000}

\* lengths of the chunks handed to the limiter
LimiterChunkSizes == {150000, 300000}

\* RateLimiter::new at time now, and the stream it is going to pace
RateLimiter_new(bytes_per_ms, now) ==
  [pc |-> "built", bytes_per_second |-> bytes_per_ms, last_update |-> now,
   bytes_sent |-> 0,
   has_limiter |-> TRUE,           \* ChunkedDownloader.rate_limiter.is_some()
   rate_limit_bps |-> bytes_per_ms, \* the limit the caller configured
   clock |-> now,       \* the current time
   start_time |-> now,  \* when the download began
   pending |-> 0,       \* length of the chunk that has just arrived
   streamed |-> 0,      \* bytes of this download handed to the limiter
   chunks |-> 0,        \* calls of wait_if_needed in this download
   slept |-> 0]         \* what the last wait_if_needed slept

\* the time wait_if_needed sleeps when called at time now: a wait of at most
\* one millisecond is skipped, a longer one lasts whole milliseconds
wait_time(l, now, bytes) ==
  LET elapsed        == now - l.last_update
      expected_bytes == elapsed * l.bytes_per_second
      excess_bytes   == (l.bytes_sent + bytes) - expected_bytes
  IN IF l.bytes_sent + bytes > expected_bytes /\ excess_bytes > l.bytes_per_second
     THEN (excess_bytes + l.bytes_per_second - 1) \div l.bytes_per_second
     ELSE 0

InitLimiter ==
  /\ vc = DefaultClient /\ last = NoCall
  /\ mode = "limiter" /\ url = CHOOSE u \in Urls : TRUE
  /\ tmp = Absent
  /\ IdleOrchestrator
  /\ retry = IdleRetry /\ resume = IdleResume /\ IdlePure
  /\ limiter \in {RateLimiter_new(r, 0) : r \in LimiterRates}

\* the caller starts a download some time after with_rate_limit
LimStart ==
  /\ limiter.pc = "built"
  /\ \E d \in LimiterIdleTimes :
       limiter' = [limiter EXCEPT !.pc = "recv", !.clock = @ + d,
                                  !.start_time = limiter.clock + d]
  /\ UNCHANGED <<clientVars, orchestratorVars, retry, resume, pureVars>>

\* the next chunk of the response arrives
LimChunk ==
  /\ limiter.pc = "recv"
  /\ limiter.chunks < MaxLimiterChunks
  /\ \E g \in ArrivalTimes, b \in LimiterChunkSizes :
       limiter' = [limiter EXCEPT !.pc = "wait", !.clock = @ + g, !.pending = b]
  /\ UNCHANGED <<clientVars, orchestratorVars, retry, resume, pureVars>>

\* wait_if_needed(pending), the sleep included
LimWait ==
  /\ limiter.pc = "wait"
  /\ limiter.has_limiter
  /\ LET now   == limiter.clock
         sleep == wait_time(limiter, now, limiter.pending)
     IN limiter' = [limiter EXCEPT !.pc = "recv",
                                   !.bytes_sent = @ + limiter.pending,
                                   !.last_update = now,
                                   !.clock = now + sleep,
                                   !.slept = sleep,
                                   !.streamed = @ + limiter.pending,
                                   !.chunks = @ + 1,
                                   !.pending = 0]
  /\ UNCHANGED <<clientVars, orchestratorVars, retry, resume, pureVars>>

\* the response body ends and the download returns
LimEnd ==
  /\ limiter.pc = "recv"
  /\ limiter.chunks >= 1
  /\ limiter' = [limiter EXCEPT !.pc = "done"]
  /\ UNCHANGED <<clientVars, orchestratorVars, retry, resume, pureVars>>

NextLimiter == LimStart \/ LimChunk \/ LimWait \/ LimEnd

SpecLimiter == InitLimiter /\ [][NextLimiter]_vars

\* core/downloader.rs: Downloader::new() followed by with_rate_limit: the
\* limit is stored in the options, the ChunkedDownloader is the one of
\* ChunkedDownloader::new(), whose rate_limiter is None
Downloader_with_rate_limit(bytes_per_ms) ==
  [RateLimiter_new(0, 0) EXCEPT !.has_limiter = FALSE,
                                !.rate_limit_bps = bytes_per_ms]

\* a limiter built by ChunkedDownloader::with_rate_limit, or the downloader
\* of an orchestrator given a limit
InitThrottle ==
  /\ vc = DefaultClient /\ last = NoCall
  /\ mode = "throttle" /\ url = CHOOSE u \in Urls : TRUE
  /\ tmp = Absent
  /\ IdleOrchestrator
  /\ retry = IdleRetry /\ resume = IdleResume /\ IdlePure
  /\ limiter \in {RateLimiter_new(r, 0) : r \in LimiterRates}
                   \cup {Downloader_with_rate_limit(r) : r \in LimiterRates}

\* process_successful_response: `if let Some(rate_limiter)` finds None, the
\* chunk has been written and nothing is accounted
LimSkip ==
  /\ limiter.pc = "wait"
  /\ ~limiter.has_limiter
  /\ limiter' = [limiter EXCEPT !.pc = "recv",
                                !.slept = 0,
                                !.streamed = @ + limiter.pending,
                                !.chunks = @ + 1,
                                !.pending = 0]
  /\ UNCHANGED <<clientVars, orchestratorVars, retry, resume, pureVars>>

NextThrottle == NextLimiter \/ LimSkip

SpecThrottle == InitThrottle /\ [][NextThrottle]_vars

\* C20: with the rate limiter enabled at R bytes per second, a download of
\* N > 256 KB bytes that took T seconds has N / T <= R * (1 + 5 %).
C20_RateBound ==
  (limiter.pc = "done" /\ limiter.streamed > 256 * 1024)
    => limiter.streamed * 100
         <= limiter.bytes_per_second * 105 * (limiter.clock - limiter.start_time)

\* the same bound for a download that begins when the limiter is built
C20_NoIdleTime ==
  (limiter.pc = "done" /\ limiter.streamed > 256 * 1024
     /\ limiter.start_time = 0)
    => limiter.streamed * 100
         <= limiter.bytes_per_second * 105 * (limiter.clock - limiter.start_time)

\* the sleep of a limiter that measures the elapsed time from the start of
\* the download
SleepFromStart(l, now, bytes) ==
  LET expected == (now - l.start_time) * l.bytes_per_second
      excess   == (l.bytes_sent + bytes) - expected
  IN IF l.bytes_sent + bytes > expected /\ excess > l.bytes_per_second
     THEN (excess + l.bytes_per_second - 1) \div l.bytes_per_second
     ELSE 0

\* C21: on each chunk of size b the limiter sleeps
\* (bytes_sent + b - expected) / rate, with expected = (time elapsed since
\* the download's start_time) * rate, exactly when bytes_sent + b exceeds
\* expected and the sleep is longer than 1 ms; so a stream that has arrived
\* no faster than the limit is not delayed.
C21_SleepFromStart ==
  [][LimWait =>
       /\ limiter'.slept = SleepFromStart(limiter, limiter.clock, limiter.pending)
       /\ (limiter.bytes_sent + limiter.pending
             <= (limiter.clock - limiter.start_time) * limiter.bytes_per_second
           => limiter'.slept = 0)]_vars

\* ---------------------------------------------------------------------------
\* platform/innertube.rs: ensure_api_key
\* ---------------------------------------------------------------------------

FetchReturnedTo == pc \in {"fetch_done", "probe_done"}

C23_Original ==
  [][BootstrapFetch =>
       LET yields == hist'.pageOutcome = "marker"
           isLast == srcIdx = NumSources - 1
       IN /\ yields => pc' = "ewr" /\ api_key'[who]
          /\ ~yields /\ ~isLast => pc' = "bootstrap" /\ srcIdx' = srcIdx + 1
          /\ ~yields /\ isLast => FetchReturnedTo' /\ fetchRes' = "ApiKeyNotFound"
          /\ FetchReturnedTo' => ~yields /\ isLast]_vars

\* C23: pages are tried in order; a page answered with a status other than
\* 2xx or without the marker is followed by the next page, the first page
\* with the marker ends the loop, ApiKeyNotFound is returned exactly when the
\* last page has been tried that way, and a page whose request fails or
\* whose body cannot be read ends the bootstrap at once with DownloadFailed.
C23_PageOrder ==
  [][BootstrapFetch =>
       LET o      == hist'.pageOutcome
           lacks  == o \in {"status", "nomarker"}
           isLast == srcIdx = NumSources - 1
       IN /\ o = "marker" => pc' = "ewr" /\ api_key'[who]
          /\ lacks /\ ~isLast => pc' = "bootstrap" /\ srcIdx' = srcIdx + 1
          /\ lacks /\ isLast => FetchReturnedTo' /\ fetchRes' = "ApiKeyNotFound"
          /\ o \in {"transport", "text"}
               => FetchReturnedTo' /\ fetchRes' = "DownloadFailed" /\ ~api_key'[who]
          /\ (FetchReturnedTo' /\ fetchRes' = "ApiKeyNotFound") => lacks /\ isLast]_vars

\* the second page could not be fetched and the bootstrap ended there
C23_Witness ==
  /\ FetchReturnedTo /\ hist.pageOutcome = "transport" /\ srcIdx = 1
  /\ fetchRes = "DownloadFailed"

\* ---------------------------------------------------------------------------
\* platform/cipher.rs: Cipher::decipher_signature and decipher_n_parameter.
\* A string is a sequence of characters, a character a small number.
\* ---------------------------------------------------------------------------

MaxCipherCalls == 2

\* the protected signatures and n values handed to the cipher
CipherInputs == {<<1, 2, 3>>, <<1, 1>>}

CipherOps == {"sign", "nonce"}

\* the versions of the player script the platform serves
ScriptVersions == {1, 2}

Reverse(s) == [i \in 1..Len(s) |-> s[Len(s) + 1 - i]]

\* chars.swap(i, j), positions counted from 0
Swap(s, i, j) ==
  [k \in 1..Len(s) |-> IF k = i + 1 THEN s[j + 1] ELSE IF k = j + 1 THEN s[i + 1] ELSE s[k]]

\* what the decipher function of script version v computes from s
ScriptResult(s, v) == IF v = 1 THEN Reverse(s) ELSE Tail(s)

\* decipher_with_full_js, method 5: no way of running the script worked
FullJsFallback(s) ==
  IF Reverse(s) # s THEN Reverse(s)
  ELSE IF Len(s) >= 2 THEN Swap(s, 0, Len(s) - 1)
  ELSE s

\* apply_common_n_transformations: the first transformation that changes s
apply_common_n_transformations(s) ==
  IF Reverse(s) # s THEN Reverse(s)
  ELSE IF Len(s) >= 2 /\ Swap(s, 0, Len(s) - 1) # s THEN Swap(s, 0, Len(s) - 1)
  ELSE IF Len(s) >= 3 /\ Swap(s, 1, 2) # s THEN Swap(s, 1, 2)
  ELSE IF Len(s) >= 2 THEN Tail(s)
  ELSE s

CacheKeys == CipherOps \X CipherInputs

NoEntry == [has |-> FALSE, val |-> <<>>]

Entry(v) == [has |-> TRUE, val |-> v]

EmptyCache == [k \in CacheKeys |-> NoEntry]

NoResult == [ok |-> FALSE, val |-> <<>>, err |-> "none"]

OkResult(v) == [ok |-> TRUE, val |-> v, err |-> "none"]

ErrResult(e) == [ok |-> FALSE, val |-> <<>>, err |-> e]

\* Cipher::new
NewCipher(inProcess, calls) ==
  [pc |-> "idle",
   multi |-> EmptyCache,    \* multi_cache.signature_cache (1 hour)
   async_cache |-> EmptyCache,  \* async_cache (10 minutes)
   player_js |-> 0,         \* the cached player script's version, 0: none
   op |-> "sign", input |-> <<>>,
   script |-> 0,            \* the script the running call works with
   fetches |-> 0,           \* requests the running call has sent
   pageOutcome |-> "none",  \* what its watch-page request gave
   scriptOutcome |-> "none",\* what its script request gave
   how |-> "none",          \* how its value was obtained
   result |-> NoResult,
   known |-> NoEntry,       \* what this Cipher had returned for the input before the call
   knownInProcess |-> NoEntry, \* what any Cipher of the process had
   byInstance |-> EmptyCache,   \* results this Cipher returned less than an hour ago
   byProcess |-> inProcess,     \* results any Cipher of the process returned less than an hour ago
   calls |-> calls]

InitCipher ==
  /\ vc = DefaultClient /\ last = NoCall
  /\ mode = "cipher" /\ url = CHOOSE u \in Urls : TRUE
  /\ tmp = Absent
  /\ IdleOrchestrator
  /\ retry = IdleRetry /\ resume = IdleResume /\ limiter = IdleLimiter
  /\ xform = IdleXform /\ norm = IdleNorm /\ sel = IdleSel
  /\ mcache = IdleCache /\ jobs = IdleJobs /\ idcall = IdleIdCall
  /\ cipher = NewCipher(EmptyCache, 0)

CipherFrame ==
  UNCHANGED <<clientVars, orchestratorVars, retry, resume, limiter, xform, norm, sel,
              mcache, jobs, idcall>>

CipherAtRest == cipher.pc \in {"idle", "done"}

\* resolve_format_url_with_cipher and process_player_response: Cipher::new()
CiNew ==
  /\ CipherAtRest
  /\ cipher # NewCipher(cipher.byProcess, cipher.calls)
  /\ cipher' = NewCipher(cipher.byProcess, cipher.calls)
  /\ CipherFrame

\* ten minutes pass: the entries of async_cache and the player script expire
CiTenMinutes ==
  /\ CipherAtRest
  /\ cipher.async_cache # EmptyCache \/ cipher.player_js # 0
  /\ cipher' = [cipher EXCEPT !.async_cache = EmptyCache, !.player_js = 0]
  /\ CipherFrame

\* an hour passes: the entries of the signature cache expire too
CiOneHour ==
  /\ CipherAtRest
  /\ cipher.multi # EmptyCache
  /\ cipher' = [cipher EXCEPT !.async_cache = EmptyCache, !.player_js = 0,
                              !.multi = EmptyCache, !.byInstance = EmptyCache,
                              !.byProcess = EmptyCache]
  /\ CipherFrame

\* decipher_signature(s, video_url) or decipher_n_parameter(n, video_url) is called
CiCall ==
  /\ CipherAtRest
  /\ cipher.calls < MaxCipherCalls
  /\ \E o \in CipherOps, s \in CipherInputs :
       cipher' = [cipher EXCEPT !.pc = "lookup", !.op = o, !.input = s,
                                !.script = 0, !.fetches = 0,
                                !.pageOutcome = "none", !.scriptOutcome = "none",
                                !.how = "none", !.result = NoResult,
                                !.known = cipher.byInstance[<<o, s>>],
                                !.knownInProcess = cipher.byProcess[<<o, s>>],
                                !.calls = @ + 1]
  /\ CipherFrame

\* the call returns r
CipherReturns(c, r, how) ==
  LET k == <<c.op, c.input>> IN
  [c EXCEPT !.pc = "done", !.result = r, !.how = how,
            !.byInstance = IF r.ok THEN [@ EXCEPT ![k] = Entry(r.val)] ELSE @,
            !.byProcess = IF r.ok THEN [@ EXCEPT ![k] = Entry(r.val)] ELSE @]

\* no cache is consulted
CacheLookup_miss(c, k) == NoEntry

\* the two cache lookups that open both functions
CacheLookup(c, k) == IF c.multi[k].has THEN c.multi[k] ELSE c.async_cache[k]

CiLookup ==
  /\ cipher.pc = "lookup"
  /\ LET k == <<cipher.op, cipher.input>>
         e == CacheLookup(cipher, k)
     IN IF e.has
        THEN cipher' = CipherReturns([cipher EXCEPT !.multi[k] = e], OkResult(e.val), "cache")
        ELSE cipher' = [cipher EXCEPT !.pc = "page"]
  /\ CipherFrame

\* every page answer lets the call go on
PageFailure_none(outcome) == "none"

\* fetch_player_js_url: the error it returns, "none" when it returns the URL
PageFailure(outcome) ==
  CASE outcome \in {"transport", "text"} -> "DownloadFailed"
    [] outcome = "nourl" -> "CipherError"
    [] OTHER -> "none"

\* fetch_player_js_url(video_url).await?
CiPage ==
  /\ cipher.pc = "page"
  /\ \E outcome \in {"transport", "text", "nourl", "url"} :
       LET c == [cipher EXCEPT !.fetches = @ + 1, !.pageOutcome = outcome] IN
       IF PageFailure(outcome) # "none"
       THEN cipher' = CipherReturns(c, ErrResult(PageFailure(outcome)), "none")
       ELSE cipher' = [c EXCEPT !.pc = "script"]
  /\ CipherFrame

\* fetch_player_js(player_js_url).await?
CiScript ==
  /\ cipher.pc = "script"
  /\ IF cipher.player_js # 0
     THEN cipher' = [cipher EXCEPT !.pc = "transform", !.script = cipher.player_js,
                                   !.scriptOutcome = "cached"]
     ELSE \E outcome \in {"transport", "text", "body"} :
            LET c == [cipher EXCEPT !.fetches = @ + 1, !.scriptOutcome = outcome] IN
            IF outcome # "body"
            THEN cipher' = CipherReturns(c, ErrResult("DownloadFailed"), "none")
            ELSE \E v \in ScriptVersions :
                   cipher' = [c EXCEPT !.pc = "transform", !.script = v, !.player_js = v]
  /\ CipherFrame

\* the ways the value is obtained once the script is there
TransformWays(op) ==
  IF op = "sign" THEN {"script", "fallback"}
  ELSE {"ncode", "ncode_asis", "parse", "common"}

\* the rest of both functions: the transformation and the two cache inserts
CiTransform ==
  /\ cipher.pc = "transform"
  /\ \E how \in TransformWays(cipher.op) :
       LET s == cipher.input
           k == <<cipher.op, s>>
           r == CASE how = "script"     -> OkResult(ScriptResult(s, cipher.script))
                  [] how = "fallback"   -> OkResult(FullJsFallback(s))
                  [] how = "ncode"      -> OkResult(ScriptResult(s, cipher.script))
                  [] how = "ncode_asis" -> OkResult(s)
                  [] how = "parse"      -> ErrResult("ParseError")
                  [] OTHER              -> OkResult(apply_common_n_transformations(s))
           c == IF r.ok
                THEN [cipher EXCEPT !.multi[k] = Entry(r.val),
                                    !.async_cache[k] = Entry(r.val)]
                ELSE cipher
       IN cipher' = CipherReturns(c, r, how)
  /\ CipherFrame

NextCipher == CiNew \/ CiTenMinutes \/ CiOneHour \/ CiCall \/ CiLookup \/ CiPage
                \/ CiScript \/ CiTransform

SpecCipher == InitCipher /\ [][NextCipher]_vars

CipherDone == cipher.pc = "done"

\* the call could not get the script, or could not build a transform from it
TotalFailure ==
  \/ cipher.pageOutcome \in {"transport", "text", "nourl"}
  \/ cipher.scriptOutcome \in {"transport", "text"}
  \/ cipher.how \in {"fallback", "common", "parse"}

MaxSigLen == 3

MaxSteps == 2

\* the numeric arguments a script passes to a primitive
StepArgs == 0..(MaxSigLen + 1)

\* the signatures: every list of at most MaxSigLen characters
Signatures == UNION {[1..n -> {1, 2}] : n \in 0..MaxSigLen}

\* "spl": chars = chars[arg..] when arg < chars.len()
spl(chars, arg) ==
  IF arg < Len(chars) THEN SubSeq(chars, arg + 1, Len(chars)) ELSE chars

\* "swp": chars.swap(0, arg % chars.len()) when chars.len() > 1
swp(chars, arg) ==
  IF Len(chars) > 1 THEN Swap(chars, 0, arg % Len(chars)) ELSE chars

NewXform(sig) ==
  [pc |-> "steps", chars |-> sig,
   before |-> sig,   \* the list before the last step
   op |-> "none", arg |-> 0, \* the last step
   n |-> 0]          \* steps applied

InitTransform ==
  /\ vc = DefaultClient /\ last = NoCall
  /\ mode = "transform" /\ url = CHOOSE u \in Urls : TRUE
  /\ tmp = Absent
  /\ IdleOrchestrator
  /\ retry = IdleRetry /\ resume = IdleResume /\ limiter = IdleLimiter
  /\ cipher = IdleCipher /\ norm = IdleNorm /\ sel = IdleSel
  /\ mcache = IdleCache /\ jobs = IdleJobs /\ idcall = IdleIdCall
  /\ xform \in {NewXform(sig) : sig \in Signatures}

XformFrame ==
  UNCHANGED <<clientVars, orchestratorVars, retry, resume, limiter, cipher, norm, sel,
              mcache, jobs, idcall>>

Step(op, arg, chars) ==
  [xform EXCEPT !.chars = chars, !.before = xform.chars, !.op = op, !.arg = arg,
                !.n = @ + 1]

XfRev ==
  /\ xform.pc = "steps" /\ xform.n < MaxSteps
  /\ \E arg \in StepArgs : xform' = Step("rev", arg, Reverse(xform.chars))
  /\ XformFrame

XfSpl ==
  /\ xform.pc = "steps" /\ xform.n < MaxSteps
  /\ \E arg \in StepArgs : xform' = Step("spl", arg, spl(xform.chars, arg))
  /\ XformFrame

XfSwp ==
  /\ xform.pc = "steps" /\ xform.n < MaxSteps
  /\ \E arg \in StepArgs : xform' = Step("swp", arg, swp(xform.chars, arg))
  /\ XformFrame

NextTransform == XfRev \/ XfSpl \/ XfSwp

SpecTransform == InitTransform /\ [][NextTransform]_vars

\* C26: splice with argument k applied to a list of length L drops the first
\* min(k, L) elements: the suffix from index k when k < L, the empty list
\* when k >= L.
C26_SpliceDrops ==
  xform.op = "spl" =>
    xform.chars = SubSeq(xform.before, Min(xform.arg, Len(xform.before)) + 1,
                         Len(xform.before))

\* the same for an argument below the length of the list
C26_SpliceBelowLength ==
  (xform.op = "spl" /\ xform.arg < Len(xform.before)) =>
    xform.chars = SubSeq(xform.before, xform.arg + 1, Len(xform.before))

\* ---------------------------------------------------------------------------
\* core/downloader.rs: the two URL normalisations, of a direct URL in
\* process_player_response and of a deciphered URL in
\* resolve_format_url_with_cipher.  A URL is the list of its query pairs,
\* a pair is <<key, value>>, and a value is a list of characters.
\* ---------------------------------------------------------------------------

MaxNormalize == 2

Yes == <<"y", "e", "s">>

One == <<"1">>

\* the values a URL can carry for each parameter, <<>> standing for "not there"
ParamValues ==
  [n          |-> {<<>>, <<"a", "b", "c">>, <<"a", "a">>},
   fvip       |-> {<<>>, <<"3">>, <<"5">>, <<"x">>},
   ratebypass |-> {<<>>, Yes},
   alr        |-> {<<>>, Yes},
   sparams    |-> {<<>>, <<"i", "p", ",", "r", "q", "h">>, <<"i", "p">>},
   rqh        |-> {<<>>, One}]

ParamOrder == <<"n", "fvip", "ratebypass", "alr", "sparams", "rqh">>

\* the query of a URL that carries the values of choice
RECURSIVE QueryFrom(_, _)
QueryFrom(choice, i) ==
  IF i > Len(ParamOrder) THEN <<>>
  ELSE LET k == ParamOrder[i] IN
       (IF choice[k] = <<>> THEN <<>> ELSE <<(<<k, choice[k]>>)>>)
         \o QueryFrom(choice, i + 1)

InputQueries ==
  {QueryFrom(c, 1) : c \in [n : ParamValues.n, fvip : ParamValues.fvip,
                            ratebypass : ParamValues.ratebypass, alr : ParamValues.alr,
                            sparams : ParamValues.sparams, rqh : ParamValues.rqh]}

\* query_pairs().any(|(k, _)| k == key)
HasParam(q, key) == \E i \in 1..Len(q) : q[i][1] = key

\* query_pairs().find(|(k, _)| k == key), for a query that has the key
ParamValue(q, key) ==
  q[CHOOSE i \in 1..Len(q) : q[i][1] = key /\ \A j \in 1..(i - 1) : q[j][1] # key][2]

\* s.contains("rqh")
ContainsRqh(v) ==
  \E i \in 1..Len(v) : i + 2 <= Len(v) /\ SubSeq(v, i, i + 2) = <<"r", "q", "h">>

\* the three append_pair calls both normalisations make
AddMissing(q) ==
  LET has_ratebypass  == HasParam(q, "ratebypass")
      has_alr         == HasParam(q, "alr")
      has_rqh         == HasParam(q, "rqh")
      sparams_has_rqh == HasParam(q, "sparams") /\ ContainsRqh(ParamValue(q, "sparams"))
  IN q \o (IF has_ratebypass THEN <<>> ELSE <<(<<"ratebypass", Yes>>)>>)
       \o (IF has_alr THEN <<>> ELSE <<(<<"alr", Yes>>)>>)
       \o (IF sparams_has_rqh /\ ~has_rqh THEN <<(<<"rqh", One>>)>> ELSE <<>>)

FvipDigits == <<"1", "2", "3", "4", "5">>

\* fvip_str.parse::<u8>() succeeds (on the values of ParamValues.fvip)
IsFvipNumber(v) == \E d \in 1..Len(FvipDigits) : v = <<FvipDigits[d]>>

FvipNumber(v) == CHOOSE d \in 1..Len(FvipDigits) : v = <<FvipDigits[d]>>

IsNotFvip(pair) == pair[1] # "fvip"

\* the fvip rotation: the pair is dropped and (fvip % 5) + 1 appended
RotateFvip(q, current_fvip) ==
  IF current_fvip # <<>> /\ IsFvipNumber(current_fvip)
  THEN Append(SelectSeq(q, IsNotFvip),
              <<"fvip", <<FvipDigits[(FvipNumber(current_fvip) % 5) + 1]>> >>)
  ELSE q

\* resolve_format_url_with_cipher: the normalisation that ends it
NormalizeDeciphered(q) ==
  LET current_fvip == IF HasParam(q, "fvip") THEN ParamValue(q, "fvip") ELSE <<>>
  IN RotateFvip(AddMissing(q), current_fvip)

\* the outcomes of decipher_n_parameter on a new Cipher
NonceAnswers == {"error", "ncode_asis", "common"}

\* what decipher_n_parameter returns for n, <<>> for an error
NonceOf(n, answer) ==
  CASE answer = "common"     -> apply_common_n_transformations(n)
    [] answer = "ncode_asis" -> n
    [] OTHER                 -> <<>>

\* process_player_response: the normalisation of final_url; a failed
\* decipher_n_parameter leaves n as it is
NormalizeDirect(q, answer) ==
  LET n_out    == IF HasParam(q, "n") THEN NonceOf(ParamValue(q, "n"), answer) ELSE <<>>
      replaced == IF HasParam(q, "n") /\ answer # "error"
                  THEN [i \in 1..Len(q) |-> IF q[i][1] = "n" THEN <<"n", n_out>> ELSE q[i]]
                  ELSE q
  IN AddMissing(replaced)

NewNorm(w, q) ==
  [pc |-> "url", which |-> w, query |-> q,
   prev |-> q,        \* the query before the last normalisation
   answer |-> "none", \* what decipher_n_parameter answered in the last one
   firstAnswer |-> "none",  \* and in the first one
   applied |-> 0]

InitNormalize ==
  /\ vc = DefaultClient /\ last = NoCall
  /\ mode = "normalize" /\ url = CHOOSE u \in Urls : TRUE
  /\ tmp = Absent
  /\ IdleOrchestrator
  /\ retry = IdleRetry /\ resume = IdleResume /\ limiter = IdleLimiter
  /\ cipher = IdleCipher /\ xform = IdleXform /\ sel = IdleSel
  /\ mcache = IdleCache /\ jobs = IdleJobs /\ idcall = IdleIdCall
  /\ norm \in {NewNorm(w, q) : w \in {"direct", "deciphered"}, q \in InputQueries}

NormFrame ==
  UNCHANGED <<clientVars, orchestratorVars, retry, resume, limiter, cipher, xform, sel,
              mcache, jobs, idcall>>

\* the normalisation of a deciphered URL is applied to the URL
NmDeciphered ==
  /\ norm.pc = "url" /\ norm.which = "deciphered" /\ norm.applied < MaxNormalize
  /\ norm' = [norm EXCEPT !.query = NormalizeDeciphered(norm.query),
                          !.prev = norm.query, !.applied = @ + 1]
  /\ NormFrame

\* the normalisation of a direct URL is applied to the URL
NmDirect ==
  /\ norm.pc = "url" /\ norm.which = "direct" /\ norm.applied < MaxNormalize
  /\ \E a \in NonceAnswers :
       norm' = [norm EXCEPT !.query = NormalizeDirect(norm.query, a),
                            !.prev = norm.query, !.applied = @ + 1,
                            !.answer = a,
                            !.firstAnswer = IF norm.applied = 0 THEN a ELSE @]
  /\ NormFrame

NextNormalize == NmDeciphered \/ NmDirect

SpecNormalize == InitNormalize /\ [][NextNormalize]_vars

\* C27: normalising an already normalised URL returns it unchanged, for
\* every URL, those that carry n, fvip, ratebypass, alr or sparams included.
C27_Idempotent == norm.applied >= 2 => norm.query = norm.prev

\* the same for a URL without n and without a numeric fvip
C27_IdempotentOtherwise ==
  (norm.applied >= 2 /\ ~HasParam(norm.query, "n")
     /\ ~(HasParam(norm.query, "fvip") /\ IsFvipNumber(ParamValue(norm.query, "fvip"))))
    => norm.query = norm.prev

\* ---------------------------------------------------------------------------
\* platform/formats.rs: select_format, and the selection process_player_response
\* makes (core/downloader.rs), which ends in Downloader::select_format
\* ---------------------------------------------------------------------------

MaxFormats == 3

\* a format descriptor; bitrates are in kbit/s
Fmt(itag, mime, bitrate, audio, video, hasHeight, height) ==
  [itag |-> itag, mime_type |-> mime, bitrate |-> bitrate, audio_codec |-> audio,
   video_codec |-> video, hasHeight |-> hasHeight, height |-> height]

FormatPool ==
  {Fmt(22, "video/mp4", 2000, TRUE, TRUE, TRUE, 720),
   Fmt(18, "video/mp4", 1000, TRUE, TRUE, TRUE, 360),
   Fmt(43, "video/webm", 800, TRUE, TRUE, TRUE, 360),
   Fmt(137, "video/mp4", 5000, FALSE, TRUE, TRUE, 1080),
   Fmt(140, "audio/mp4", 128, TRUE, FALSE, FALSE, 0)}

\* the format lists: the descriptors of a player response, each itag once
FormatLists ==
  UNION {{l \in [1..n -> FormatPool] : \A i, j \in 1..n : i # j => l[i].itag # l[j].itag} :
           n \in 0..MaxFormats}

NoExtension == "<none>"

Quality(kind, arg) == [kind |-> kind, arg |-> arg]

\* the selectors: FormatSelector::new(quality), with or without with_extension
Selectors ==
  {[quality |-> q, extension |-> e] :
     q \in {Quality("Best", 0), Quality("Worst", 0), Quality("Itag", 18),
            Quality("Itag", 137), Quality("Itag", 999), Quality("Height", 360)},
     e \in {NoExtension, "mp4"}}

\* f.mime_type.contains(ext)
MimeContains(mime, ext) ==
  \/ ext = "mp4" /\ mime \in {"video/mp4", "audio/mp4"}
  \/ ext = "webm" /\ mime \in {"video/webm", "audio/webm"}

\* Format::is_progressive
is_progressive(f) ==
  /\ f.mime_type \in {"video/mp4", "video/webm"}
  /\ f.audio_codec /\ f.video_codec

\* f.height.unwrap_or(0)
HeightOrZero(f) == IF f.hasHeight THEN f.height ELSE 0

NoFormat == Fmt(0, "<none>", 0, FALSE, FALSE, FALSE, 0)

Selected(f) == [ok |-> TRUE, format |-> f]

NoFormatFound == [ok |-> FALSE, format |-> NoFormat]

\* the positions of l, as a set
Positions(l) == 1..Len(l)

\* candidates.retain by extension (the selectors of the model set no height
\* limit and no preferred itag)
Candidates(formats, selector) ==
  IF selector.extension = NoExtension THEN formats
  ELSE LET keep == {i \in Positions(formats) :
                      MimeContains(formats[i].mime_type, selector.extension)}
           RECURSIVE Kept(_)
           Kept(i) == IF i > Len(formats) THEN <<>>
                      ELSE (IF i \in keep THEN <<formats[i]>> ELSE <<>>) \o Kept(i + 1)
       IN Kept(1)

\* iter().find(pred): the first element at one of the positions ps
FirstAt(l, ps) == l[CHOOSE i \in ps : \A j \in ps : i <= j]

\* max_by_key(bitrate) over the positions ps: the last of the maximal elements
MaxBitrateLast(l, ps) ==
  l[CHOOSE i \in ps : \A j \in ps : l[j].bitrate < l[i].bitrate
                                      \/ (l[j].bitrate = l[i].bitrate /\ j <= i)]

\* max_by_key(height.unwrap_or(0)) over the positions ps
MaxHeightLast(l, ps) ==
  l[CHOOSE i \in ps : \A j \in ps : HeightOrZero(l[j]) < HeightOrZero(l[i])
                                      \/ (HeightOrZero(l[j]) = HeightOrZero(l[i]) /\ j <= i)]

\* sort_by(bitrate, descending), which is stable, then first()
HighestBitrateFirst(l) ==
  l[CHOOSE i \in Positions(l) : \A j \in Positions(l) :
      l[j].bitrate < l[i].bitrate \/ (l[j].bitrate = l[i].bitrate /\ i <= j)]

\* sort_by(bitrate, ascending), then first()
LowestBitrateFirst(l) ==
  l[CHOOSE i \in Positions(l) : \A j \in Positions(l) :
      l[j].bitrate > l[i].bitrate \/ (l[j].bitrate = l[i].bitrate /\ i <= j)]

\* the arms Itag and Height, which both selections share
ByItagOrHeight(c, quality) ==
  LET ps == IF quality.kind = "Itag"
            THEN {i \in Positions(c) : c[i].itag = quality.arg}
            ELSE {i \in Positions(c) : HeightOrZero(c[i]) = quality.arg}
  IN IF ps = {} THEN NoFormatFound
     ELSE IF quality.kind = "Itag" THEN Selected(FirstAt(c, ps))
     ELSE Selected(MaxBitrateLast(c, ps))

\* platform/formats.rs: select_format
select_format(formats, selector) ==
  LET c  == Candidates(formats, selector)
      pr == {i \in Positions(c) : is_progressive(c[i])}
  IN IF c = <<>> THEN NoFormatFound
     ELSE CASE selector.quality.kind = "Best" ->
                 IF pr # {} THEN Selected(FirstAt(c, pr))
                 ELSE Selected(HighestBitrateFirst(c))
            [] selector.quality.kind = "Worst" -> Selected(LowestBitrateFirst(c))
            [] OTHER -> ByItagOrHeight(c, selector.quality)

\* core/downloader.rs: Downloader::select_format
Downloader_select_format(formats, selector) ==
  LET c == Candidates(formats, selector)
  IN IF c = <<>> THEN NoFormatFound
     ELSE CASE selector.quality.kind = "Best"  -> Selected(HighestBitrateFirst(c))
            [] selector.quality.kind = "Worst" -> Selected(LowestBitrateFirst(c))
            [] OTHER -> ByItagOrHeight(c, selector.quality)

\* process_player_response: itag 18 or 22 first, then 43 or 36, then the selector
ResolveSelection(formats, selector) ==
  LET a == {i \in Positions(formats) : formats[i].itag \in {18, 22}}
      b == {i \in Positions(formats) : formats[i].itag \in {43, 36}}
  IN IF a # {} THEN Selected(MaxHeightLast(formats, a))
     ELSE IF b # {} THEN Selected(MaxHeightLast(formats, b))
     ELSE Downloader_select_format(formats, selector)

NewSel(l, selector) ==
  [pc |-> "formats", formats |-> l, selector |-> selector,
   by |-> "none",          \* which selection was made
   result |-> NoFormatFound]

InitFormats ==
  /\ vc = DefaultClient /\ last = NoCall
  /\ mode = "formats" /\ url = CHOOSE u \in Urls : TRUE
  /\ tmp = Absent
  /\ IdleOrchestrator
  /\ retry = IdleRetry /\ resume = IdleResume /\ limiter = IdleLimiter
  /\ cipher = IdleCipher /\ xform = IdleXform /\ norm = IdleNorm
  /\ mcache = IdleCache /\ jobs = IdleJobs /\ idcall = IdleIdCall
  /\ sel \in {NewSel(l, selector) : l \in FormatLists, selector \in Selectors}

SelFrame ==
  UNCHANGED <<clientVars, orchestratorVars, retry, resume, limiter, cipher, xform, norm,
              mcache, jobs, idcall>>

\* a caller of the library selects with select_format
SelLibrary ==
  /\ sel.pc = "formats"
  /\ sel' = [sel EXCEPT !.pc = "done", !.by = "select_format",
                        !.result = select_format(sel.formats, sel.selector)]
  /\ SelFrame

\* resolve selects in process_player_response
SelResolve ==
  /\ sel.pc = "formats"
  /\ sel' = [sel EXCEPT !.pc = "done", !.by = "resolve",
                        !.result = ResolveSelection(sel.formats, sel.selector)]
  /\ SelFrame

NextFormats == SelLibrary \/ SelResolve

SpecFormats == InitFormats /\ [][NextFormats]_vars

SelCandidates == Candidates(sel.formats, sel.selector)

\* C28: a selection with quality = itag(n), the one made during resolve
\* included, returns the descriptor with itag n if the candidates have one,
\* and no-format otherwise.
C28_ItagSelected ==
  (sel.pc = "done" /\ sel.selector.quality.kind = "Itag") =>
    LET ps == {i \in Positions(SelCandidates) :
                 SelCandidates[i].itag = sel.selector.quality.arg}
    IN IF ps = {} THEN sel.result = NoFormatFound
       ELSE sel.result.ok /\ sel.result.format.itag = sel.selector.quality.arg

\* the same for select_format alone
C28_LibraryOnly == sel.by = "select_format" => C28_ItagSelected

\* C29: with quality = best, if a candidate is muxed the result is a muxed
\* candidate of the greatest height among the muxed candidates, whatever the
\* order of the list; if none is muxed it is a candidate of greatest bitrate.
C29_BestMuxedTallest ==
  (sel.pc = "done" /\ sel.selector.quality.kind = "Best" /\ SelCandidates # <<>>) =>
    LET c  == SelCandidates
        pr == {i \in Positions(c) : is_progressive(c[i])}
    IN /\ sel.result.ok
       /\ \E i \in Positions(c) : c[i] = sel.result.format
       /\ IF pr # {}
          THEN /\ is_progressive(sel.result.format)
               /\ \A j \in pr : HeightOrZero(c[j]) <= HeightOrZero(sel.result.format)
          ELSE \A j \in Positions(c) : c[j].bitrate <= sel.result.format.bitrate

\* ---------------------------------------------------------------------------
\* platform/innertube.rs: get_player_response, the playability check
\* ---------------------------------------------------------------------------

ErrorWithReason ==
  FetchReturnedTo /\ hist.prStatus = "ERROR" /\ hist.prReason # NoReason

MaxCacheOps == 4

MaxCacheTime == 3

CacheKeySet == {"key1", "key2"}

CacheValues == {"value1", "value2"}

\* the ttl of an insert, in clock ticks
Ttls == {0, 1, 2}

\* CachedValue, and the absence of one in the HashMap
NoCached == [has |-> FALSE, value |-> "none", expires_at |-> 0]

CachedValue(v, e) == [has |-> TRUE, value |-> v, expires_at |-> e]

\* Option<V>
NoneValue == [has |-> FALSE, value |-> "none"]

SomeValue(v) == [has |-> TRUE, value |-> v]

\* an entry is kept one tick too long
Unexpired_late(e, now) == e.expires_at >= now

\* cached_value.expires_at > Instant::now()
Unexpired(e, now) == e.expires_at > now

\* MemoryCache::new(); `recent` remembers, for each key, the last insert that
\* no remove and no clear followed
NewCache ==
  [pc |-> "ready", now |-> 0,
   cache |-> [k \in CacheKeySet |-> NoCached],
   recent |-> [k \in CacheKeySet |-> NoCached],
   lastOp |-> "new", key |-> "none", got |-> NoneValue, ops |-> 0]

InitCache ==
  /\ vc = DefaultClient /\ last = NoCall
  /\ mode = "cache" /\ url = CHOOSE u \in Urls : TRUE
  /\ tmp = Absent
  /\ IdleOrchestrator
  /\ retry = IdleRetry /\ resume = IdleResume /\ limiter = IdleLimiter
  /\ cipher = IdleCipher /\ xform = IdleXform /\ norm = IdleNorm /\ sel = IdleSel
  /\ jobs = IdleJobs /\ idcall = IdleIdCall
  /\ mcache = NewCache

CacheFrame ==
  UNCHANGED <<clientVars, orchestratorVars, retry, resume, limiter, cipher, xform, norm,
              sel, jobs, idcall>>

CacheCall(op, k) ==
  [mcache EXCEPT !.lastOp = op, !.key = k, !.ops = mcache.ops + 1, !.got = NoneValue]

\* time passes between two calls
McTick ==
  /\ mcache.pc = "ready" /\ mcache.now < MaxCacheTime
  /\ mcache' = [mcache EXCEPT !.now = mcache.now + 1, !.lastOp = "tick"]
  /\ CacheFrame

\* MemoryCache::get
McGet ==
  /\ mcache.pc = "ready" /\ mcache.ops < MaxCacheOps
  /\ \E k \in CacheKeySet :
       LET e == mcache.cache[k] IN
       IF e.has /\ Unexpired(e, mcache.now)
       THEN mcache' = [CacheCall("get", k) EXCEPT !.got = SomeValue(e.value)]
       ELSE mcache' = [CacheCall("get", k) EXCEPT !.cache[k] = NoCached]
  /\ CacheFrame

\* MemoryCache::insert
McInsert ==
  /\ mcache.pc = "ready" /\ mcache.ops < MaxCacheOps
  /\ \E k \in CacheKeySet, v \in CacheValues, ttl \in Ttls :
       mcache' = [CacheCall("insert", k) EXCEPT
                    !.cache[k] = CachedValue(v, mcache.now + ttl),
                    !.recent[k] = CachedValue(v, mcache.now + ttl)]
  /\ CacheFrame

\* MemoryCache::remove: the value of the entry, expired or not
McRemove ==
  /\ mcache.pc = "ready" /\ mcache.ops < MaxCacheOps
  /\ \E k \in CacheKeySet :
       mcache' = [CacheCall("remove", k) EXCEPT
                    !.got = IF mcache.cache[k].has
                            THEN SomeValue(mcache.cache[k].value) ELSE NoneValue,
                    !.cache[k] = NoCached,
                    !.recent[k] = NoCached]
  /\ CacheFrame

\* MemoryCache::clear
McClear ==
  /\ mcache.pc = "ready" /\ mcache.ops < MaxCacheOps
  /\ mcache' = [CacheCall("clear", "none") EXCEPT
                  !.cache = [k \in CacheKeySet |-> NoCached],
                  !.recent = [k \in CacheKeySet |-> NoCached]]
  /\ CacheFrame

\* MemoryCache::cleanup_expired
McCleanup ==
  /\ mcache.pc = "ready" /\ mcache.ops < MaxCacheOps
  /\ mcache' = [CacheCall("cleanup_expired", "none") EXCEPT
                  !.cache = [k \in CacheKeySet |->
                               IF mcache.cache[k].has /\ Unexpired(mcache.cache[k], mcache.now)
                               THEN mcache.cache[k] ELSE NoCached]]
  /\ CacheFrame

NextCache ==
  \/ McTick
  \/ McGet
  \/ McInsert
  \/ McRemove
  \/ McClear
  \/ McCleanup

SpecCache == InitCache /\ [][NextCache]_vars

\* the most recent insert for k that no remove(k) and no clear followed, if
\* its ttl has not elapsed
LiveInsert(k) ==
  mcache.recent[k].has /\ mcache.recent[k].expires_at > mcache.now

\* C33: get(k) returns the value of the most recent insert for k if its ttl
\* has not elapsed and no remove(k) or clear happened since, and nothing
\* otherwise; an unexpired entry is still in the map after any call, so
\* cleanup_expired removes no unexpired entry.
C33_GetMostRecent ==
  /\ mcache.lastOp = "get" =>
       mcache.got = IF LiveInsert(mcache.key)
                    THEN SomeValue(mcache.recent[mcache.key].value)
                    ELSE NoneValue
  /\ \A k \in CacheKeySet :
       (mcache.pc = "ready" /\ LiveInsert(k)) => mcache.cache[k] = mcache.recent[k]

\* a get at the very tick the ttl of the entry ran out returned nothing
C33_Witness ==
  /\ mcache.lastOp = "get"
  /\ mcache.recent[mcache.key].has
  /\ mcache.recent[mcache.key].expires_at = mcache.now
  /\ mcache.now > 0
  /\ mcache.got = NoneValue

\* ---------------------------------------------------------------------------
\* utils/url.rs: extract_video_id on its own
\* ---------------------------------------------------------------------------

\* paths and v values beside those of the tests: a short id, and an id
\* followed by another path segment
MorePaths == { <<"abc">>, <<"dQw4w9WgXcQ", "extra">>, <<"shorts", "abc">> }

UrlInputs ==
  [parses : BOOLEAN, host : Hosts, path : Paths \cup MorePaths,
   v : {NoV, "dQw4w9WgXcQ", "abc"}]

\* the number of characters of the segments and values the inputs are made of
CharCount(seg) ==
  CASE seg = "dQw4w9WgXcQ" -> 11
    [] seg = "brZCOVlyPPo" -> 11
    [] seg = "extra" -> 5
    [] seg = "UCxxx" -> 5
    [] seg = "shorts" -> 6
    [] seg = "watch" -> 5
    [] seg = "abc" -> 3
    [] OTHER -> 0

\* the number of characters of an id made of path segments joined by '/'
RECURSIVE IdLength(_)
IdLength(id) ==
  IF id = <<>> THEN 0
  ELSE IF Len(id) = 1 THEN CharCount(id[1])
  ELSE CharCount(id[1]) + 1 + IdLength(Tail(id))

InitUrl ==
  /\ vc = DefaultClient /\ last = NoCall
  /\ mode = "url" /\ url \in UrlInputs
  /\ tmp = Absent
  /\ IdleOrchestrator
  /\ retry = IdleRetry /\ resume = IdleResume /\ limiter = IdleLimiter
  /\ cipher = IdleCipher /\ xform = IdleXform /\ norm = IdleNorm /\ sel = IdleSel
  /\ mcache = IdleCache /\ jobs = IdleJobs
  /\ idcall = [pc |-> "call", out |-> ErrId("none")]

\* extract_video_id(url)
UrlExtract ==
  /\ idcall.pc = "call"
  /\ idcall' = [pc |-> "done", out |-> extract_video_id(url)]
  /\ UNCHANGED <<clientVars, orchestratorVars, retry, resume, limiter, cipher, xform,
                 norm, sel, mcache, jobs>>

NextUrl == UrlExtract

SpecUrl == InitUrl /\ [][NextUrl]_vars

\* C34: extract_video_id returns an error or an 11-character token, never a
\* token of another length.
C34_ElevenChars ==
  (idcall.pc = "done" /\ idcall.out.ok) => IdLength(idcall.out.id) = 11

\* ---------------------------------------------------------------------------
\* platform/innertube.rs: the request context after a rotation
\* ---------------------------------------------------------------------------

\* the client name that goes with an X-YouTube-Client-Name value
NameOfHeader(n) ==
  CASE n = "3" -> "ANDROID"
    [] n = "5" -> "IOS"
    [] OTHER -> "WEB"

\* C35: the player-response request sent after the orchestrator rotated the
\* identity carries, in its context, the client name of the newly selected
\* identity.
C35_ContextOfNewIdentity ==
  hist.reqAfterRot => hist.reqCtx = NameOfHeader(ClientNameHeader(hist.reqFor))

\* ---------------------------------------------------------------------------
\* core/downloader.rs: the rate limit of the orchestrator
\* ---------------------------------------------------------------------------

\* C36: when a rate limit is configured, every media chunk written has been
\* accounted to a rate limiter with that limit.
C36_LimitApplied ==
  (limiter.rate_limit_bps > 0 /\ limiter.streamed > 0) =>
     /\ limiter.has_limiter
     /\ limiter.bytes_per_second = limiter.rate_limit_bps
     /\ limiter.bytes_sent = limiter.streamed

\* C36 where it holds: a limit given to the ChunkedDownloader itself is applied
C36_ChunkedDownloaderLimit ==
  (limiter.has_limiter /\ limiter.streamed > 0) =>
     /\ limiter.bytes_per_second = limiter.rate_limit_bps
     /\ limiter.bytes_sent = limiter.streamed

\* ---------------------------------------------------------------------------
\* download/downloader.rs: the temp file of a failed streaming download
\* ---------------------------------------------------------------------------

\* ChunkedDownloader::download has returned an error after File::create
\* succeeded (a media GET is sent right after it)
StreamingFailedAfterCreate ==
  pc = "media_done" /\ mediaRes # "Ok" /\ hist.mediaReqs > 0

\* C37: when streaming-mode download returns an error after it created the
\* temp file, the temp file has been removed, on every error path.
C37_TempRemoved ==
  StreamingFailedAfterCreate => tmp = Absent

\* C37 where it holds: an error of the request or of the stream, returned by
\* download_without_chunking, removes the temp file
C37_RemovedOnStreamError ==
  (StreamingFailedAfterCreate /\ ~(eof /\ flushed /\ synced)) => tmp = Absent

\* ---------------------------------------------------------------------------
\* download/downloader.rs: progress of the ranged download
\* ---------------------------------------------------------------------------

\* C38: with a known total size an iteration of the loop that does not end
\* the call with an error strictly increases the number of bytes downloaded,
\* and with an unknown size the loop ends at the first chunk shorter than
\* the chunk size; so the call always terminates.
C38_ChunkProgress ==
  [][(resume.pc = "chunk" /\ resume'.pc \in {"loop", "flush"}) =>
       IF resume.total_size > 0
       THEN resume'.downloaded > resume.downloaded
       ELSE (resume'.downloaded - resume.downloaded < resume.chunk_size
               <=> resume'.pc = "flush")]_vars

\* C38 where it holds: the loop of an unknown size ends at the first chunk
\* shorter than the chunk size, and no iteration loses bytes
C38_UnknownSizeEnds ==
  [][(resume.pc = "chunk" /\ resume'.pc \in {"loop", "flush"}) =>
       /\ resume'.downloaded >= resume.downloaded
       /\ resume.total_size = 0 =>
            (resume'.downloaded - resume.downloaded < resume.chunk_size
               <=> resume'.pc = "flush")]_vars

\* ---------------------------------------------------------------------------
\* download/downloader.rs: two streaming downloads running at the same time
\* ---------------------------------------------------------------------------

\* chunks in the body of each media response
MaxJobChunks == 2

Jobs == {1, 2}

\* a path is a file stem and an extension
Path(stem, ext) == [stem |-> stem, ext |-> ext]

\* the output paths the callers choose from
OutputPaths == {Path("video", "mp4"), Path("video", "webm"), Path("clip", "mp4")}

\* Path::with_extension: the extension is replaced, not appended
with_extension(p, ext) == [p EXCEPT !.ext = ext]

\* let tmp_path = output_path.with_extension("tmp")
tmp_path(output_path) == with_extension(output_path, "tmp")

AllPaths == OutputPaths \cup {tmp_path(p) : p \in OutputPaths}

\* the directory maps a path to the file it names (0: no such file); a file
\* is the sequence of the chunks written to it, each marked with its writer
NewJobs(o1, o2) ==
  [pc |-> "run",
   output_path |-> <<o1, o2>>,
   at |-> <<"create", "create">>,     \* where each download call is
   fd |-> <<0, 0>>,                   \* the file each call has open
   written |-> <<0, 0>>,              \* chunks each call has written
   res |-> <<"none", "none">>,        \* what each call returned
   dir |-> [p \in AllPaths |-> 0],
   files |-> <<<< >>, << >>>>,
   created |-> 0]

InitJobs ==
  /\ vc = DefaultClient /\ last = NoCall
  /\ mode = "jobs" /\ url = CHOOSE u \in Urls : TRUE
  /\ tmp = Absent
  /\ IdleOrchestrator
  /\ retry = IdleRetry /\ resume = IdleResume /\ limiter = IdleLimiter
  /\ cipher = IdleCipher /\ xform = IdleXform /\ norm = IdleNorm /\ sel = IdleSel
  /\ mcache = IdleCache /\ idcall = IdleIdCall
  /\ jobs \in {NewJobs(o1, o2) : o1 \in OutputPaths, o2 \in OutputPaths}

JobsFrame ==
  UNCHANGED <<clientVars, orchestratorVars, retry, resume, limiter, cipher, xform, norm,
              sel, mcache, idcall>>

\* File::create(&tmp_path): an existing file is truncated, a missing one made
JobCreate ==
  /\ jobs.pc = "run"
  /\ \E i \in Jobs :
       /\ jobs.at[i] = "create"
       /\ LET t == tmp_path(jobs.output_path[i])
              f == IF jobs.dir[t] # 0 THEN jobs.dir[t] ELSE jobs.created + 1
          IN jobs' = [jobs EXCEPT !.at[i] = "stream",
                                  !.fd[i] = f,
                                  !.dir[t] = f,
                                  !.files[f] = << >>,
                                  !.created = IF jobs.dir[t] # 0 THEN @ ELSE @ + 1]
  /\ JobsFrame

\* process_successful_response: the next chunk is written, or the stream
\* ends, or it fails and download removes the temp file
JobStream ==
  /\ jobs.pc = "run"
  /\ \E i \in Jobs, outcome \in {"chunk", "end", "error"} :
       /\ jobs.at[i] = "stream"
       /\ LET t == tmp_path(jobs.output_path[i]) IN
          CASE outcome = "chunk" ->
                 /\ jobs.written[i] < MaxJobChunks
                 /\ jobs' = [jobs EXCEPT
                               !.written[i] = @ + 1,
                               !.files[jobs.fd[i]] =
                                  Append(@, [job |-> i, chunk |-> jobs.written[i] + 1])]
            [] outcome = "end" ->
                 jobs' = [jobs EXCEPT !.at[i] = "rename"]
            [] OTHER ->
                 jobs' = [jobs EXCEPT !.at[i] = "done", !.res[i] = "DownloadFailed",
                                      !.dir[t] = 0]
  /\ JobsFrame

\* download: tokio::fs::rename(&tmp_path, output_path).await?
JobRename ==
  /\ jobs.pc = "run"
  /\ \E i \in Jobs :
       /\ jobs.at[i] = "rename"
       /\ LET t == tmp_path(jobs.output_path[i]) IN
          IF jobs.dir[t] = 0
          THEN jobs' = [jobs EXCEPT !.at[i] = "done", !.res[i] = "IoError"]
          ELSE jobs' = [jobs EXCEPT !.at[i] = "done", !.res[i] = "Ok",
                                    !.dir[jobs.output_path[i]] = jobs.dir[t],
                                    !.dir[t] = 0]
  /\ JobsFrame

NextJobs ==
  \/ JobCreate
  \/ JobStream
  \/ JobRename

SpecJobs == InitJobs /\ [][NextJobs]_vars

\* the chunks i wrote, in order
OwnData(i) == [k \in 1..jobs.written[i] |-> [job |-> i, chunk |-> k]]

\* C39: two downloads with different output paths never use the same temp
\* file: while a download is in progress its temp path names the file it has
\* open, which holds its own chunks only, and a download that succeeded left
\* exactly its own chunks at its output path.
C39_SeparateTemps ==
  (jobs.pc = "run" /\ jobs.output_path[1] # jobs.output_path[2]) =>
    \A i \in Jobs :
      /\ jobs.at[i] \in {"stream", "rename"} =>
           /\ jobs.dir[tmp_path(jobs.output_path[i])] = jobs.fd[i]
           /\ jobs.files[jobs.fd[i]] = OwnData(i)
      /\ jobs.res[i] = "Ok" =>
           /\ jobs.dir[jobs.output_path[i]] # 0
           /\ jobs.files[jobs.dir[jobs.output_path[i]]] = OwnData(i)

\* C39 where it holds: downloads whose output paths differ in the file stem
C39_DifferentStems ==
  (jobs.pc = "run" /\ jobs.output_path[1].stem # jobs.output_path[2].stem) =>
    \A i \in Jobs :
      /\ jobs.at[i] \in {"stream", "rename"} =>
           /\ jobs.dir[tmp_path(jobs.output_path[i])] = jobs.fd[i]
           /\ jobs.files[jobs.fd[i]] = OwnData(i)
      /\ jobs.res[i] = "Ok" =>
           /\ jobs.dir[jobs.output_path[i]] # 0
           /\ jobs.files[jobs.dir[jobs.output_path[i]]] = OwnData(i)

\* ---------------------------------------------------------------------------
\* platform/client.rs: current_client_index and the current client type
\* ---------------------------------------------------------------------------

\* C40: in every reachable state of a VideoClient, whatever configuration it
\* was built with, current_client_index is the position of the current client
\* type in the fixed list.
C40_IndexMatchesType ==
  vc.current_client_index = PositionOf(vc.client_type)

\* C40 where it holds: once a switch or a reset has taken effect
C40_MatchesAfterSwitch ==
  (vc.client_switch_count > 0 \/ last.op = "reset_client_switching") =>
     vc.current_client_index = PositionOf(vc.client_type)

\* ---------------------------------------------------------------------------
\* download/retry.rs: RetryExecutor::execute, attempts and backoff
\* ---------------------------------------------------------------------------

\* C31: execute invokes the operation at most max_retries + 1 times, makes no
\* invocation after a success, and when every invocation fails with a
\* retryable error it makes exactly max_retries + 1 invocations and returns
\* the last error.
C31_AttemptBound ==
  /\ retry.calls <= retry.max_retries + 1
  /\ retry.result = "Ok" => retry.pc = "done"
  /\ (retry.pc = "done" /\ is_retryable(retry.result)) =>
        /\ retry.calls = retry.max_retries + 1
        /\ retry.result = retry.last_error

\* four timeouts in a row with max_retries = 3 were returned as a timeout
C31_Witness ==
  /\ retry.pc = "done" /\ retry.result = "TimeoutError"
  /\ retry.max_retries = 3 /\ retry.calls = 4

\* C32: the base delay slept before a retry never exceeds max_delay, and the
\* next base delay is the previous one times backoff_multiplier, capped at
\* max_delay, for every configuration.
C32_DelayCapped ==
  [][ExecuteSleep =>
       /\ retry'.base <= retry.max_delay
       /\ retry'.delay = Min(retry.delay * retry.backoff_multiplier, retry.max_delay)]_vars

\* C32 where it holds: only the first sleep, of initial_delay, can exceed
\* max_delay; every later base delay is capped.
C32_CappedAfterFirst ==
  retry.attempt >= 2 => retry.base <= retry.max_delay

====
